---- MODULE Spec2Model ----
(***************************************************************************)
(* Zone classification and hot/cold differential engine of the NBA shot    *)
(* chart visualisation (court_geometry.py, zone_classify.py,               *)
(* zone_tables.py, heatmap.py).                                            *)
(*                                                                         *)
(* Lengths are integers counting QUARTER FEET: every court constant of     *)
(* court_geometry.py (5.25, 23.75, 22.0, ...) is a whole number of quarter *)
(* feet, so 5.25 ft is 21 and 4.0 ft is 16.  Distances are compared by     *)
(* their squares, which is what hypot(dx, dy) <= r decides on this         *)
(* lattice.  Percentages are exact fractions <<numerator, denominator>>.   *)
(***************************************************************************)
EXTENDS Integers, Sequences, FiniteSets, TLC

VARIABLES
    x, y, pad_ft,      \* arguments of classify_basic_zone / classify_area_lane
    basic,             \* result of classify_basic_zone ("" before the call)
    area,              \* result of classify_area_lane  ("" before the call)
    player_df,         \* the player's shot table
    league_df,         \* the league averages table
    pl_tab,            \* outcome of a call of player_zone_fg_table
    zdg,               \* outcome of a call of zone_diff_grid, with its locals
    lg_tab,            \* outcome of a call of league_zone_fg_table
    bnd,               \* a call of add_zone_boundaries_from_labels: grid, labels, traces
    shot,              \* a call of nba_shot_to_court_xy: raw location, court point, zone
    flt,               \* a call of filter_df: filter state and outcome
    view,              \* a call of render_3d_trajectories: arguments and what it drew
    load,              \* a call of the shot log loader and the unpacking of its result
    app                \* the app: its session state and what its last run did

vars == <<x, y, pad_ft, basic, area, player_df, league_df, pl_tab, zdg,
         lg_tab, bnd, shot, flt, view, load, app>>

\* The variables of the classifier and zone table calls, and those of the other calls.
core == <<x, y, pad_ft, basic, area, player_df, league_df, pl_tab, zdg>>
rest == <<lg_tab, bnd, shot, flt, view, load, app>>

(***************************************************************************)
(* Bounds of the model.                                                    *)
(***************************************************************************)
\* Points are drawn this many quarter feet beyond the half court on each side.
Margin == 8
\* Largest padding drawn, in quarter feet (the grid uses bin_ft/2 = 1 ft = 4).
MaxPad == 4
\* Most rows of a player table given to player_zone_fg_table alone.
MaxPlayerRows == 3
\* Most rows of the player table and of the league table given to zone_diff_grid.
MaxShots == 2
MaxLeagueRows == 2
\* Largest attempts for which _safe_ratio is tried on its own.
MaxAttempts == 6
\* Rows of each table in the calls on tables of any column shape.
MaxSchemaRows == 1
\* Most rows of a league table given to league_zone_fg_table alone.
MaxLeaguePoolRows == 2
\* Most rows and most columns of a label grid given to add_zone_boundaries_from_labels.
MaxGrid == 3
\* Raw shot locations are drawn up to this many tenths of a foot from the hoop on each axis.
MaxRaw == 45
\* A shot table handed to filter_df has at most this many rows.
MaxFilterRows == 2
\* The sample argument of render_3d_trajectories is at most this (0: no sampling).
MaxSample == 2
\* A shot table handed to render_3d_trajectories has at most this many rows.
MaxRenderRows == 2
\* The app is followed over at most this many runs of its script.
MaxRuns == 2
\* Tables with backcourt or unknown-area rows have at most this many rows.
MaxBadRows == 2

(***************************************************************************)
(* court_geometry.py: court constants, in quarter feet.                    *)
(***************************************************************************)
COURT_LENGTH_HALF == 188      \* 47.0 ft
COURT_WIDTH == 200            \* 50.0 ft
BACKBOARD_X == 16             \* 4.0 ft
RIM_TO_BACKBOARD == 5         \* 1.25 ft
HOOP_X == BACKBOARD_X + RIM_TO_BACKBOARD
HOOP_Y == 0
THREE_PT_RADIUS == 95         \* 23.75 ft
THREE_PT_CORNER == 88         \* 22.0 ft
PAINT_WIDTH == 64             \* 16.0 ft
FT_LINE_X == 76               \* 19.0 ft

(***************************************************************************)
(* zone_classify.py                                                        *)
(***************************************************************************)
Abs(n) == IF n < 0 THEN -n ELSE n
Max(a, b) == IF a >= b THEN a ELSE b
Min(a, b) == IF a <= b THEN a ELSE b

\* math.hypot(dx, dy) squared.
Hypot2(dx, dy) == dx * dx + dy * dy

_RESTRICTED_R == 16           \* 4.0 ft
_HALF_PAINT == PAINT_WIDTH \div 2

\* xf <= _X_MEET, where _X_MEET = HOOP_X + R*cos(asin(C/R)) = HOOP_X + sqrt(R^2 - C^2)
\* (about 14.198 ft, irrational): xf - HOOP_X <= sqrt(R^2 - C^2).
LeqXMeet(xf) ==
    \/ xf - HOOP_X <= 0
    \/ (xf - HOOP_X) * (xf - HOOP_X)
         <= THREE_PT_RADIUS * THREE_PT_RADIUS - THREE_PT_CORNER * THREE_PT_CORNER

\* SHOT_ZONE_AREA labels with their bands [y0, y1), in list order.
_AREAS == <<
    <<"Left Side(L)",          -100, -60>>,
    <<"Left Side Center(LC)",   -60, -20>>,
    <<"Center(C)",              -20,  20>>,
    <<"Right Side Center(RC)",   20,  60>>,
    <<"Right Side(R)",           60, 100>> >>

\* The for loop of classify_area_lane from entry k on: the first band holding yy.
RECURSIVE AreaScan(_, _)
AreaScan(yy, k) ==
    IF k > Len(_AREAS) THEN "Right Side(R)"
    ELSE IF _AREAS[k][2] <= yy /\ yy < _AREAS[k][3] THEN _AREAS[k][1]
    ELSE AreaScan(yy, k + 1)

\* Faulty variant: the clamp of y into [-25, 25] is left out.
classify_area_lane_NoClamp(yv) == AreaScan(yv, 1)

classify_area_lane(yv) ==
    LET yy == Max(-100, Min(100, yv))
    IN  AreaScan(yy, 1)

\* Faulty variant: the padded paint rectangle is tested before the restricted circle.
classify_basic_zone_PaintFirst(xf, yf, pad) ==
    LET half_paint == _HALF_PAINT + pad
        x0 == 0 - pad
        x1 == FT_LINE_X + pad
    IN  IF x0 <= xf /\ xf <= x1 /\ Abs(yf) <= half_paint
            THEN "In The Paint (Non-RA)"
        ELSE IF Hypot2(xf - HOOP_X, yf - HOOP_Y) <= _RESTRICTED_R * _RESTRICTED_R
            THEN "Restricted Area"
        ELSE IF Abs(yf) >= THREE_PT_CORNER /\ LeqXMeet(xf)
            THEN (IF yf < 0 THEN "Left Corner 3" ELSE "Right Corner 3")
        ELSE IF Hypot2(xf - HOOP_X, yf - HOOP_Y) >= THREE_PT_RADIUS * THREE_PT_RADIUS
            THEN "Above the Break 3"
        ELSE "Mid-Range"

\* Faulty variant: the arc distance is tested before the corner lines.
classify_basic_zone_ArcFirst(xf, yf, pad) ==
    LET half_paint == _HALF_PAINT + pad
        x0 == 0 - pad
        x1 == FT_LINE_X + pad
    IN  IF Hypot2(xf - HOOP_X, yf - HOOP_Y) <= _RESTRICTED_R * _RESTRICTED_R
            THEN "Restricted Area"
        ELSE IF x0 <= xf /\ xf <= x1 /\ Abs(yf) <= half_paint
            THEN "In The Paint (Non-RA)"
        ELSE IF Hypot2(xf - HOOP_X, yf - HOOP_Y) >= THREE_PT_RADIUS * THREE_PT_RADIUS
            THEN "Above the Break 3"
        ELSE IF Abs(yf) >= THREE_PT_CORNER /\ LeqXMeet(xf)
            THEN (IF yf < 0 THEN "Left Corner 3" ELSE "Right Corner 3")
        ELSE "Mid-Range"

\* Faulty variant: the padding also widens the corner-three band.
classify_basic_zone_PadCorner(xf, yf, pad) ==
    LET half_paint == _HALF_PAINT + pad
        x0 == 0 - pad
        x1 == FT_LINE_X + pad
    IN  IF Hypot2(xf - HOOP_X, yf - HOOP_Y) <= _RESTRICTED_R * _RESTRICTED_R
            THEN "Restricted Area"
        ELSE IF x0 <= xf /\ xf <= x1 /\ Abs(yf) <= half_paint
            THEN "In The Paint (Non-RA)"
        ELSE IF Abs(yf) >= THREE_PT_CORNER - pad /\ LeqXMeet(xf)
            THEN (IF yf < 0 THEN "Left Corner 3" ELSE "Right Corner 3")
        ELSE IF Hypot2(xf - HOOP_X, yf - HOOP_Y) >= THREE_PT_RADIUS * THREE_PT_RADIUS
            THEN "Above the Break 3"
        ELSE "Mid-Range"

classify_basic_zone(xf, yf, pad) ==
    LET half_paint == _HALF_PAINT + pad
        x0 == 0 - pad
        x1 == FT_LINE_X + pad
    IN  IF Hypot2(xf - HOOP_X, yf - HOOP_Y) <= _RESTRICTED_R * _RESTRICTED_R
            THEN "Restricted Area"
        ELSE IF x0 <= xf /\ xf <= x1 /\ Abs(yf) <= half_paint
            THEN "In The Paint (Non-RA)"
        ELSE IF Abs(yf) >= THREE_PT_CORNER /\ LeqXMeet(xf)
            THEN (IF yf < 0 THEN "Left Corner 3" ELSE "Right Corner 3")
        ELSE IF Hypot2(xf - HOOP_X, yf - HOOP_Y) >= THREE_PT_RADIUS * THREE_PT_RADIUS
            THEN "Above the Break 3"
        ELSE "Mid-Range"

(***************************************************************************)
(* Exact fractions: a float percentage p is the pair <<n, d>> in lowest     *)
(* terms with d > 0.  NaN stands for the result of a division by zero       *)
(* (ZeroDivisionError, NaN or Inf).                                         *)
(***************************************************************************)
RECURSIVE GCD(_, _)
GCD(a, b) == IF b = 0 THEN a ELSE GCD(b, a % b)

NaN == <<0, 0>>
Zero == <<0, 1>>
IsNaN(p) == p[2] = 0

\* n / d in lowest terms; anything over a zero denominator (so any operation
\* on a NaN) is NaN.
Frac(n, d) ==
    IF d = 0 THEN NaN
    ELSE LET g == GCD(Abs(n), Abs(d))
             sgn == IF d < 0 THEN -1 ELSE 1
         IN  <<(sgn * n) \div g, (sgn * d) \div g>>

\* numer / denom
Div(n, d) == Frac(n, d)
FAdd(p, q) == Frac(p[1] * q[2] + q[1] * p[2], p[2] * q[2])
FSub(p, q) == Frac(p[1] * q[2] - q[1] * p[2], p[2] * q[2])
FMulInt(p, k) == Frac(p[1] * k, p[2])
FDivInt(p, k) == Frac(p[1], p[2] * k)

\* The function f, tabulated: TLC then computes each entry once instead of at
\* every lookup.
Tabulated(f) == f @@ <<>>

RECURSIVE SeqSum(_)
SeqSum(s) == IF s = <<>> THEN 0 ELSE Head(s) + SeqSum(Tail(s))

RECURSIVE FSeqSum(_)
FSeqSum(s) == IF s = <<>> THEN Zero ELSE FAdd(Head(s), FSeqSum(Tail(s)))

RECURSIVE SetSum(_, _)
SetSum(f, S) ==
    IF S = {} THEN 0
    ELSE LET e == CHOOSE e \in S : TRUE IN f[e] + SetSum(f, S \ {e})

RECURSIVE FSetSum(_, _)
FSetSum(f, S) ==
    IF S = {} THEN Zero
    ELSE LET e == CHOOSE e \in S : TRUE IN FAdd(f[e], FSetSum(f, S \ {e}))

(***************************************************************************)
(* zone_tables.py.  A DataFrame is [cols |-> its column names, rows |-> the *)
(* sequence of its rows]; a row's field is read only when its column is in  *)
(* cols.  A zone table is a function from the keys <<basic, area>> present.  *)
(***************************************************************************)
Key(r) == <<r.SHOT_ZONE_BASIC, r.SHOT_ZONE_AREA>>

\* groupby(["SHOT_ZONE_BASIC", "SHOT_ZONE_AREA"]): the group keys, a group's
\* size, and the sum of a column over a group.
GroupKeys(rows) == {Key(rows[i]) : i \in DOMAIN rows}
GroupSize(rows, k) == Cardinality({i \in DOMAIN rows : Key(rows[i]) = k})
GroupSum(rows, k, col) ==
    SeqSum([i \in DOMAIN rows |-> IF Key(rows[i]) = k THEN rows[i][col] ELSE 0])

\* Faulty variant: the schema error is swallowed and an empty table returned.
Raised_AsEmptyTable(e) == [error |-> "", table |-> <<>>]

Raised(e) == [error |-> e, table |-> <<>>]
Returned(t) == [error |-> "", table |-> t]

\* Faulty variant: the denominator is not tested.
_safe_ratio_Unguarded(numer, denom) == Div(numer, denom)

_safe_ratio(numer, denom) == IF denom > 0 THEN Div(numer, denom) ELSE Zero

\* Faulty variant: att is aggregated with "sum" like made, instead of "size".
player_zone_fg_table_AttFromSum(df) ==
    LET required == {"SHOT_ZONE_BASIC", "SHOT_ZONE_AREA"}
        has_flag == "SHOT_MADE_FLAG" \in df.cols
        rows == IF has_flag THEN df.rows
                ELSE [i \in DOMAIN df.rows |-> [df.rows[i] EXCEPT !.SHOT_MADE_FLAG = 0]]
        g == [k \in GroupKeys(rows) |->
                [att |-> GroupSum(rows, k, "SHOT_MADE_FLAG"),
                 made |-> GroupSum(rows, k, "SHOT_MADE_FLAG")]]
    IN  IF ~(required \subseteq df.cols) THEN Raised("ValueError")
        ELSE Returned([k \in DOMAIN g |->
                [player_fg |-> _safe_ratio(g[k].made, g[k].att),
                 att |-> g[k].att, made |-> g[k].made]])

player_zone_fg_table(df) ==
    LET required == {"SHOT_ZONE_BASIC", "SHOT_ZONE_AREA"}
        has_flag == "SHOT_MADE_FLAG" \in df.cols
        \* player_df.assign(SHOT_MADE_FLAG=0) when the column is missing
        rows == IF has_flag THEN df.rows
                ELSE [i \in DOMAIN df.rows |-> [df.rows[i] EXCEPT !.SHOT_MADE_FLAG = 0]]
        g == [k \in GroupKeys(rows) |->
                [att |-> GroupSize(rows, k), made |-> GroupSum(rows, k, "SHOT_MADE_FLAG")]]
    IN  IF ~(required \subseteq df.cols) THEN Raised("ValueError")
        ELSE Returned([k \in DOMAIN g |->
                [player_fg |-> _safe_ratio(g[k].made, g[k].att),
                 att |-> g[k].att, made |-> g[k].made]])

\* Faulty variant: an input without any metric shape is an error.
league_zone_fg_table_RaiseOnNoMetric(df) ==
    LET required == {"SHOT_ZONE_BASIC", "SHOT_ZONE_AREA"}
        cols == df.cols
        rows == df.rows
        keys == GroupKeys(rows)
        \* (df["FG_PCT"] * df["FGA"]).sum() / max(df["FGA"].sum(), 1.0)
        weighted(k) ==
            FDivInt(FSeqSum([i \in DOMAIN rows |->
                        IF Key(rows[i]) = k THEN FMulInt(rows[i].FG_PCT, rows[i].FGA)
                        ELSE Zero]),
                    Max(GroupSum(rows, k, "FGA"), 1))
        \* agg(league_fg=("FG_PCT", "mean"))
        mean(k) ==
            FDivInt(FSeqSum([i \in DOMAIN rows |->
                        IF Key(rows[i]) = k THEN rows[i].FG_PCT ELSE Zero]),
                    GroupSize(rows, k))
    IN  IF ~(required \subseteq cols) THEN Raised("ValueError")
        ELSE IF {"FGM", "FGA"} \subseteq cols THEN
            Returned([k \in keys |->
                [league_fg |-> _safe_ratio(GroupSum(rows, k, "FGM"), GroupSum(rows, k, "FGA"))]])
        ELSE IF "FG_PCT" \in cols THEN
            (IF "FGA" \in cols
                THEN Returned([k \in keys |-> [league_fg |-> weighted(k)]])
                ELSE Returned([k \in keys |-> [league_fg |-> mean(k)]]))
        ELSE IF "SHOT_MADE_FLAG" \in cols THEN
            Returned([k \in keys |->
                [league_fg |-> _safe_ratio(GroupSum(rows, k, "SHOT_MADE_FLAG"), GroupSize(rows, k))]])
        ELSE Raised("ValueError")

\* Faulty variant: the attempts are not used as weights.
league_zone_fg_table_NeverWeighted(df) ==
    LET required == {"SHOT_ZONE_BASIC", "SHOT_ZONE_AREA"}
        cols == df.cols
        rows == df.rows
        keys == GroupKeys(rows)
        \* (df["FG_PCT"] * df["FGA"]).sum() / max(df["FGA"].sum(), 1.0)
        weighted(k) ==
            FDivInt(FSeqSum([i \in DOMAIN rows |->
                        IF Key(rows[i]) = k THEN FMulInt(rows[i].FG_PCT, rows[i].FGA)
                        ELSE Zero]),
                    Max(GroupSum(rows, k, "FGA"), 1))
        \* agg(league_fg=("FG_PCT", "mean"))
        mean(k) ==
            FDivInt(FSeqSum([i \in DOMAIN rows |->
                        IF Key(rows[i]) = k THEN rows[i].FG_PCT ELSE Zero]),
                    GroupSize(rows, k))
    IN  IF ~(required \subseteq cols) THEN Raised("ValueError")
        ELSE IF {"FGM", "FGA"} \subseteq cols THEN
            Returned([k \in keys |->
                [league_fg |-> _safe_ratio(GroupSum(rows, k, "FGM"), GroupSum(rows, k, "FGA"))]])
        ELSE IF "FG_PCT" \in cols THEN
            (IF "FGA" \in cols
                THEN Returned([k \in keys |-> [league_fg |-> mean(k)]])
                ELSE Returned([k \in keys |-> [league_fg |-> mean(k)]]))
        ELSE IF "SHOT_MADE_FLAG" \in cols THEN
            Returned([k \in keys |->
                [league_fg |-> _safe_ratio(GroupSum(rows, k, "SHOT_MADE_FLAG"), GroupSize(rows, k))]])
        ELSE Returned(<<>>)

league_zone_fg_table(df) ==
    LET required == {"SHOT_ZONE_BASIC", "SHOT_ZONE_AREA"}
        cols == df.cols
        rows == df.rows
        keys == GroupKeys(rows)
        \* (df["FG_PCT"] * df["FGA"]).sum() / max(df["FGA"].sum(), 1.0)
        weighted(k) ==
            FDivInt(FSeqSum([i \in DOMAIN rows |->
                        IF Key(rows[i]) = k THEN FMulInt(rows[i].FG_PCT, rows[i].FGA)
                        ELSE Zero]),
                    Max(GroupSum(rows, k, "FGA"), 1))
        \* agg(league_fg=("FG_PCT", "mean"))
        mean(k) ==
            FDivInt(FSeqSum([i \in DOMAIN rows |->
                        IF Key(rows[i]) = k THEN rows[i].FG_PCT ELSE Zero]),
                    GroupSize(rows, k))
    IN  IF ~(required \subseteq cols) THEN Raised("ValueError")
        ELSE IF {"FGM", "FGA"} \subseteq cols THEN
            Returned([k \in keys |->
                [league_fg |-> _safe_ratio(GroupSum(rows, k, "FGM"), GroupSum(rows, k, "FGA"))]])
        ELSE IF "FG_PCT" \in cols THEN
            (IF "FGA" \in cols
                THEN Returned([k \in keys |-> [league_fg |-> weighted(k)]])
                ELSE Returned([k \in keys |-> [league_fg |-> mean(k)]]))
        ELSE IF "SHOT_MADE_FLAG" \in cols THEN
            Returned([k \in keys |->
                [league_fg |-> _safe_ratio(GroupSum(rows, k, "SHOT_MADE_FLAG"), GroupSize(rows, k))]])
        ELSE Returned(<<>>)

(***************************************************************************)
(* heatmap.py                                                              *)
(***************************************************************************)
\* Faulty variant: the left label is returned with a stray space.
_collapse_atb_area_Typo(a) ==
    IF a \in {"Left Side(L)", "Left Side Center(LC)"} THEN "Left Side (L)"
    ELSE IF a \in {"Right Side(R)", "Right Side Center(RC)"} THEN "Right Side(R)"
    ELSE "Center(C)"

_collapse_atb_area(a) ==
    IF a \in {"Left Side(L)", "Left Side Center(LC)"} THEN "Left Side(L)"
    ELSE IF a \in {"Right Side(R)", "Right Side Center(RC)"} THEN "Right Side(R)"
    ELSE "Center(C)"

\* bin_ft of zone_diff_grid: its default 2.0 ft, which is also what
\* render_3d_trajectories passes.
bin_ft == 8

bad_areas == {"Back Court(BC)", "None"}

\* Faulty variant: no row is dropped.
DropBadAreas_KeepAll(t) == t

\* t[~t["SHOT_ZONE_AREA"].isin(bad_areas)]
DropBadAreas(t) == [k \in {k \in DOMAIN t : k[2] \notin bad_areas} |-> t[k]]

\* Faulty variant: the area is rewritten for the rows of every basic zone.
CollapseKey_AllZones(k) == <<k[1], _collapse_atb_area(k[2])>>

\* The rewrite of SHOT_ZONE_AREA applied to each row of a zone table.
CollapseKey(k) ==
    IF k[1] = "Above the Break 3" THEN <<k[1], _collapse_atb_area(k[2])>> ELSE k

\* The rows of table t that the rewrite sends to key k2.
CollapsedFrom(t, k2) == {k \in DOMAIN t : CollapseKey(k) = k2}

\* Player table: rewrite the areas, group, sum att and made, recompute player_fg.
CollapsePlayer(t) ==
    LET att(k2) == SetSum([k \in DOMAIN t |-> t[k].att], CollapsedFrom(t, k2))
        made(k2) == SetSum([k \in DOMAIN t |-> t[k].made], CollapsedFrom(t, k2))
    IN  [k2 \in {CollapseKey(k) : k \in DOMAIN t} |->
            [att |-> att(k2), made |-> made(k2),
             player_fg |-> IF att(k2) > 0 THEN Div(made(k2), att(k2)) ELSE Zero]]

\* Faulty variant: league_fg is aggregated with "sum" instead of "mean".
CollapseLeague_Sum(t) ==
    [k2 \in {CollapseKey(k) : k \in DOMAIN t} |->
        [league_fg |-> FSetSum([k \in DOMAIN t |-> t[k].league_fg], CollapsedFrom(t, k2))]]

\* League table: rewrite the areas, group, take the mean of league_fg (pandas'
\* mean skips NaN entries and is NaN when none is left).
CollapseLeague(t) ==
    LET vals(k2) == {k \in CollapsedFrom(t, k2) : ~IsNaN(t[k].league_fg)}
    IN  [k2 \in {CollapseKey(k) : k \in DOMAIN t} |->
            [league_fg |-> FDivInt(FSetSum([k \in DOMAIN t |-> t[k].league_fg], vals(k2)),
                                   Cardinality(vals(k2)))]]

\* Faulty variant: the difference is taken the other way round (league - player).
MergeTables_DiffSwapped(pl, lg) ==
    [k \in DOMAIN pl |->
        LET joined == IF k \in DOMAIN lg THEN lg[k].league_fg ELSE NaN
            league_fg == IF IsNaN(joined) THEN pl[k].player_fg ELSE joined
        IN  [att |-> pl[k].att, made |-> pl[k].made, player_fg |-> pl[k].player_fg,
             league_fg |-> league_fg, diff |-> FSub(league_fg, pl[k].player_fg)]]

\* Faulty variant: a missing league percentage is filled with 0.0.
MergeTables_FillZero(pl, lg) ==
    [k \in DOMAIN pl |->
        LET joined == IF k \in DOMAIN lg THEN lg[k].league_fg ELSE NaN
            league_fg == IF IsNaN(joined) THEN Zero ELSE joined
        IN  [att |-> pl[k].att, made |-> pl[k].made, player_fg |-> pl[k].player_fg,
             league_fg |-> league_fg, diff |-> FSub(pl[k].player_fg, league_fg)]]

\* pl.merge(lg, how="left"), fillna of league_fg by player_fg, diff.
MergeTables(pl, lg) ==
    [k \in DOMAIN pl |->
        LET joined == IF k \in DOMAIN lg THEN lg[k].league_fg ELSE NaN
            league_fg == IF IsNaN(joined) THEN pl[k].player_fg ELSE joined
        IN  [att |-> pl[k].att, made |-> pl[k].made, player_fg |-> pl[k].player_fg,
             league_fg |-> league_fg, diff |-> FSub(pl[k].player_fg, league_fg)]]

\* Faulty variant: the stop value is included.
ARange_StopIncluded(start, stop, step) ==
    LET n == IF stop >= start THEN (stop - start) \div step + 1 ELSE 0
    IN  [k \in 0 .. (n - 1) |-> start + k * step]

\* np.arange(start, stop, step), indexed from 0.
ARange(start, stop, step) ==
    LET n == IF stop > start THEN (stop - start + step - 1) \div step ELSE 0
    IN  [k \in 0 .. (n - 1) |-> start + k * step]

x_centers == ARange(bin_ft \div 2, COURT_LENGTH_HALF, bin_ft)
y_centers == ARange((0 - COURT_WIDTH \div 2) + bin_ft \div 2, COURT_WIDTH \div 2, bin_ft)

\* np.meshgrid(x_centers, y_centers): row i runs over y, column j over x.
X == [i \in DOMAIN y_centers |-> [j \in DOMAIN x_centers |-> x_centers[j]]]
Y == [i \in DOMAIN y_centers |-> [j \in DOMAIN x_centers |-> y_centers[i]]]

\* Faulty variant: the area of a paint or restricted-area cell is not forced
\* to Center(C).
CellKey_LaneEverywhere ==
    [i \in DOMAIN y_centers |-> [j \in DOMAIN x_centers |->
        LET b == classify_basic_zone(X[i][j], Y[i][j], bin_ft \div 2)
            a == IF b = "Above the Break 3"
                     THEN _collapse_atb_area(classify_area_lane(Y[i][j]))
                 ELSE classify_area_lane(Y[i][j])
        IN  <<b, a>>]]

\* The key <<basic, area>> that the assignment loop gives cell (i, j).
CellKey ==
    [i \in DOMAIN y_centers |-> [j \in DOMAIN x_centers |->
        LET b == classify_basic_zone(X[i][j], Y[i][j], bin_ft \div 2)
            a == IF b \in {"In The Paint (Non-RA)", "Restricted Area"} THEN "Center(C)"
                 ELSE IF b = "Above the Break 3"
                     THEN _collapse_atb_area(classify_area_lane(Y[i][j]))
                 ELSE classify_area_lane(Y[i][j])
        IN  <<b, a>>]]

\* labels[i, j] = f"{basic}_{area}"
CellLabel ==
    [i \in DOMAIN y_centers |-> [j \in DOMAIN x_centers |->
        CellKey[i][j][1] \o "_" \o CellKey[i][j][2]]]

\* Faulty variant: a key without a row is looked up without the 0.0 default.
CellDiff_NoDefault(zt, key) ==
    LET d == IF key \in DOMAIN zt THEN zt[key].diff ELSE <<-1, 1>>
    IN  IF IsNaN(d) THEN Zero ELSE d

\* zone_to_diff.get(key, 0.0), then np.nan_to_num(Zdiff, nan=0.0).
CellDiff(zt, key) ==
    LET d == IF key \in DOMAIN zt THEN zt[key].diff ELSE Zero
    IN  IF IsNaN(d) THEN Zero ELSE d

\* What zone_diff_grid leaves when it raises, and before it is called: no grid.
NoGrid(st, lg0, pl0) ==
    [state |-> st, lg0 |-> lg0, pl0 |-> pl0, lg1 |-> <<>>, pl1 |-> <<>>,
     lg |-> <<>>, pl |-> <<>>, zt |-> <<>>, X |-> <<>>, Y |-> <<>>,
     Zdiff |-> <<>>, labels |-> <<>>]

\* pl.apply(f, axis=1) on a table with no rows gives, depending on the pandas
\* release, an empty Series (the column assignment then works) or a copy of the
\* empty frame (the assignment then raises ValueError): empty_apply names which.
EmptyApplyOutcomes == {"series", "frame"}

\* Whether one of the two row-wise apply calls of zone_diff_grid runs on a table
\* without rows.
ApplyOnEmptyTable(pdf, ldf) ==
    \/ DOMAIN DropBadAreas(player_zone_fg_table(pdf).table) = {}
    \/ DOMAIN DropBadAreas(league_zone_fg_table(ldf).table) = {}

\* zone_diff_grid(player_df, league_df, bin_ft=2.0, return_labels=True): its
\* locals when it returns.  lg0, pl0 are the zone tables, lg1, pl1 those without
\* the bad areas, lg, pl the collapsed ones and zt the merged one.
zone_diff_grid(pdf, ldf, empty_apply) ==
    LET lgr == league_zone_fg_table(ldf)
        plr == player_zone_fg_table(pdf)
        lg1 == Tabulated(DropBadAreas(lgr.table))
        pl1 == Tabulated(DropBadAreas(plr.table))
        pl == Tabulated(CollapsePlayer(pl1))
        lg == Tabulated(CollapseLeague(lg1))
        zt == Tabulated(MergeTables(pl, lg))
    IN  IF lgr.error # "" THEN NoGrid(lgr.error, <<>>, <<>>)
        ELSE IF plr.error # "" THEN NoGrid(plr.error, lgr.table, <<>>)
        ELSE IF ApplyOnEmptyTable(pdf, ldf) /\ empty_apply = "frame"
            THEN NoGrid("ValueError", lgr.table, plr.table)
        ELSE [state |-> "returned", lg0 |-> lgr.table, pl0 |-> plr.table,
              lg1 |-> lg1, pl1 |-> pl1, lg |-> lg, pl |-> pl, zt |-> zt,
              X |-> X, Y |-> Y,
              Zdiff |-> [i \in DOMAIN y_centers |-> [j \in DOMAIN x_centers |->
                            CellDiff(zt, CellKey[i][j])]],
              labels |-> CellLabel]

(***************************************************************************)
(* Inputs.                                                                 *)
(***************************************************************************)
SeqsUpTo(S, n) == UNION {[1 .. m -> S] : m \in 0 .. n}

\* One sequence per multiset of at most n elements of S, S being listed by the
\* sequence list: the order of the rows of a table enters none of the
\* aggregations of zone_diff_grid (group sizes, sums and means).
BagsUpTo(list, n) ==
    {[i \in DOMAIN s |-> list[s[i]]] :
        s \in {t \in SeqsUpTo(DOMAIN list, n) :
                    \A i \in DOMAIN t : \A j \in DOMAIN t : i <= j => t[i] <= t[j]}}

\* The elements of the finite set S, listed.
RECURSIVE ListOf(_)
ListOf(S) ==
    IF S = {} THEN <<>>
    ELSE LET e == CHOOSE e \in S : TRUE IN <<e>> \o ListOf(S \ {e})

NoTable == [cols |-> {}, rows |-> <<>>]
Idle == [error |-> "idle", table |-> <<>>]
IdleGrid == NoGrid("idle", <<>>, <<>>)

\* The other calls before they are made.
IdleBnd == [state |-> "idle"]
IdleShot == [state |-> "idle"]
IdleFlt == [state |-> "idle"]
IdleView == [state |-> "idle"]
IdleLoad == [state |-> "idle"]
IdleApp == [state |-> "idle"]
NoCalls ==
    /\ lg_tab = Idle
    /\ bnd = IdleBnd
    /\ shot = IdleShot
    /\ flt = IdleFlt
    /\ view = IdleView
    /\ load = IdleLoad
    /\ app = IdleApp

\* The zone labels the stats provider gives shots and league rows.
PlayerKeys ==
    {<<"Above the Break 3", a>> :
        a \in {"Left Side(L)", "Left Side Center(LC)", "Center(C)",
               "Right Side Center(RC)", "Right Side(R)", "Back Court(BC)"}}
    \cup {<<"Mid-Range", "Left Side Center(LC)">>}

PlayerRows ==
    {[SHOT_ZONE_BASIC |-> k[1], SHOT_ZONE_AREA |-> k[2], SHOT_MADE_FLAG |-> f] :
        k \in PlayerKeys, f \in {0, 1}}

PlayerColSets ==
    {{"SHOT_ZONE_BASIC", "SHOT_ZONE_AREA", "SHOT_MADE_FLAG"},
     {"SHOT_ZONE_BASIC", "SHOT_ZONE_AREA"}}

LeagueKeys ==
    {<<"Above the Break 3", "Left Side(L)">>,
     <<"Above the Break 3", "Left Side Center(LC)">>,
     <<"Mid-Range", "Left Side Center(LC)">>,
     <<"Above the Break 3", "Back Court(BC)">>}

\* A league row's makes, attempts, percentage and (for per-shot rows) make flag.
LeagueStats ==
    {[FGM |-> 0, FGA |-> 0, FG_PCT |-> <<0, 1>>, SHOT_MADE_FLAG |-> 0],
     [FGM |-> 1, FGA |-> 2, FG_PCT |-> <<1, 2>>, SHOT_MADE_FLAG |-> 1],
     [FGM |-> 1, FGA |-> 4, FG_PCT |-> <<1, 4>>, SHOT_MADE_FLAG |-> 0]}

LeagueRows ==
    {[SHOT_ZONE_BASIC |-> k[1], SHOT_ZONE_AREA |-> k[2], FGM |-> st.FGM, FGA |-> st.FGA,
      FG_PCT |-> st.FG_PCT, SHOT_MADE_FLAG |-> st.SHOT_MADE_FLAG] :
        k \in LeagueKeys, st \in LeagueStats}

ZoneCols == {"SHOT_ZONE_BASIC", "SHOT_ZONE_AREA"}
LeagueColSets ==
    {ZoneCols \cup m : m \in {{"FGM", "FGA", "FG_PCT"}, {"FG_PCT", "FGA"}, {"FG_PCT"},
                             {"SHOT_MADE_FLAG"}, {}}}

(***************************************************************************)
(* Calls of the classifier on a point drawn from the lattice.              *)
(***************************************************************************)
XRange == (0 - Margin) .. (COURT_LENGTH_HALF + Margin)
YRange == (0 - COURT_WIDTH \div 2 - Margin) .. (COURT_WIDTH \div 2 + Margin)
Pads == 0 .. MaxPad

NoPoint == x = 0 /\ y = 0 /\ pad_ft = 0 /\ basic = "" /\ area = ""
NoTables == player_df = NoTable /\ league_df = NoTable /\ pl_tab = Idle /\ zdg = IdleGrid

InitClassify ==
    /\ x \in XRange
    /\ y \in YRange
    /\ pad_ft \in Pads
    /\ basic = ""
    /\ area = ""
    /\ NoTables
    /\ NoCalls

ClassifyBasicZone ==
    /\ basic = ""
    /\ basic' = classify_basic_zone(x, y, pad_ft)
    /\ UNCHANGED <<x, y, pad_ft, area, player_df, league_df, pl_tab, zdg>>
    /\ UNCHANGED rest

ClassifyAreaLane ==
    /\ area = ""
    /\ area' = classify_area_lane(y)
    /\ UNCHANGED <<x, y, pad_ft, basic, player_df, league_df, pl_tab, zdg>>
    /\ UNCHANGED rest

NextClassify == ClassifyBasicZone \/ ClassifyAreaLane

SpecClassify == InitClassify /\ [][NextClassify]_vars

(***************************************************************************)
(* A call of player_zone_fg_table on a player table.                       *)
(***************************************************************************)
InitPlayer ==
    /\ NoPoint
    /\ \E cols \in PlayerColSets, rows \in SeqsUpTo(PlayerRows, MaxPlayerRows) :
            player_df = [cols |-> cols, rows |-> rows]
    /\ league_df = NoTable
    /\ pl_tab = Idle
    /\ zdg = IdleGrid
    /\ NoCalls

PlayerZoneFgTable ==
    /\ pl_tab = Idle
    /\ pl_tab' = player_zone_fg_table(player_df)
    /\ UNCHANGED <<x, y, pad_ft, basic, area, player_df, league_df, zdg>>
    /\ UNCHANGED rest

NextPlayer == PlayerZoneFgTable

SpecPlayer == InitPlayer /\ [][NextPlayer]_vars

(***************************************************************************)
(* A call of zone_diff_grid on a player table and a league table.          *)
(***************************************************************************)
\* Scenario 3 of the specification: Above the Break 3 shots, 4 from the left
\* side (1 made) and 6 from the left centre (3 made).
Shot(b, a, f) == [SHOT_ZONE_BASIC |-> b, SHOT_ZONE_AREA |-> a, SHOT_MADE_FLAG |-> f]
Scenario3Rows ==
    [i \in 1 .. 10 |->
        IF i <= 4 THEN Shot("Above the Break 3", "Left Side(L)", IF i = 1 THEN 1 ELSE 0)
        ELSE Shot("Above the Break 3", "Left Side Center(LC)", IF i <= 7 THEN 1 ELSE 0)]

Init ==
    /\ NoPoint
    /\ \E rows \in BagsUpTo(ListOf(PlayerRows), MaxShots) \cup {Scenario3Rows} :
            player_df = [cols |-> {"SHOT_ZONE_BASIC", "SHOT_ZONE_AREA", "SHOT_MADE_FLAG"},
                         rows |-> rows]
    /\ \E cols \in LeagueColSets, rows \in BagsUpTo(ListOf(LeagueRows), MaxLeagueRows) :
            league_df = [cols |-> cols, rows |-> rows]
    /\ pl_tab = Idle
    /\ zdg = IdleGrid
    /\ NoCalls

ZoneDiffGrid ==
    /\ zdg = IdleGrid
    \* Which pandas is installed matters only when a table is empty.
    /\ \E empty_apply \in (IF ApplyOnEmptyTable(player_df, league_df)
                               THEN EmptyApplyOutcomes ELSE {"series"}) :
            zdg' = zone_diff_grid(player_df, league_df, empty_apply)
    /\ UNCHANGED <<x, y, pad_ft, basic, area, player_df, league_df, pl_tab>>
    /\ UNCHANGED rest

Next == ZoneDiffGrid

Spec == Init /\ [][Next]_vars

(***************************************************************************)
(* Claims about the classifier, checked under SpecClassify.                *)
(***************************************************************************)
BasicZones == {"Restricted Area", "In The Paint (Non-RA)", "Mid-Range",
               "Left Corner 3", "Right Corner 3", "Above the Break 3"}

\* Squared distance of the drawn point from the hoop centre (5.25 ft, 0).
HoopDist2 == (x - 21) * (x - 21) + y * y

\* C1: every point within 4.0 ft of the hoop centre is classified
\* "Restricted Area", whatever the padding: the call made returns it, and so
\* does the call with every other padding.
C1_RestrictedAreaIgnoresPad ==
    (basic # "" /\ HoopDist2 <= 16 * 16) =>
        /\ basic = "Restricted Area"
        /\ \A p \in Pads : classify_basic_zone(x, y, p) = "Restricted Area"

\* A point on the 4 ft circle, off the centre line, classified with padding.
C1_Witness ==
    /\ basic = "Restricted Area"
    /\ HoopDist2 = 16 * 16
    /\ pad_ft > 0

\* C3: the rules of the claim, in feet * 4, and the first one that matches.
C3_RuleRA == HoopDist2 <= 16 * 16
C3_RulePaint == (0 - pad_ft) <= x /\ x <= 76 + pad_ft /\ Abs(y) <= 32 + pad_ft
\* x_meet = 5.25 + sqrt(23.75^2 - 22^2) = 14.198 ft: the last lattice point at
\* or below it is 14.0 ft = 56.
C3_RuleCorner == Abs(y) >= 88 /\ x <= 56
C3_RuleArc == HoopDist2 >= 95 * 95
C3_FirstMatch ==
    IF C3_RuleRA THEN "Restricted Area"
    ELSE IF C3_RulePaint THEN "In The Paint (Non-RA)"
    ELSE IF C3_RuleCorner /\ y < 0 THEN "Left Corner 3"
    ELSE IF C3_RuleCorner THEN "Right Corner 3"
    ELSE IF C3_RuleArc THEN "Above the Break 3"
    ELSE "Mid-Range"

\* C3: classify_basic_zone returns one of the six basic zones for every point
\* and padding, and it is the zone of the first rule that matches in the order
\* Restricted Area, Paint, Corner Three, Above-the-Break Three, Mid-Range.
C3_FirstRuleWins ==
    basic # "" => (basic \in BasicZones /\ basic = C3_FirstMatch)

\* A corner point that is also beyond the arc distance, and so matches two rules.
C3_Witness ==
    /\ basic = "Left Corner 3"
    /\ C3_RuleArc
    /\ pad_ft > 0

\* C4: the bands of the claim, in feet * 4, applied to clamp(y, -25, 25).
C4_Clamp == IF y < -100 THEN -100 ELSE IF y > 100 THEN 100 ELSE y
C4_Band ==
    IF C4_Clamp < -60 THEN "Left Side(L)"
    ELSE IF C4_Clamp < -20 THEN "Left Side Center(LC)"
    ELSE IF C4_Clamp < 20 THEN "Center(C)"
    ELSE IF C4_Clamp < 60 THEN "Right Side Center(RC)"
    ELSE "Right Side(R)"

\* C4: classify_area_lane returns the band of clamp(y, -25, 25); the boundaries
\* -15, -5, 5, 15 belong to the band on their right, y >= 25 gives Right and
\* y < -25 gives Left.
C4_LaneOfClampedY ==
    area # "" =>
        /\ area = C4_Band
        /\ area = classify_area_lane(C4_Clamp)
        /\ (y = -60 => area = "Left Side Center(LC)")
        /\ (y = -20 => area = "Center(C)")
        /\ (y = 20 => area = "Right Side Center(RC)")
        /\ (y = 60 => area = "Right Side(R)")
        /\ (y >= 100 => area = "Right Side(R)")
        /\ (y < -100 => area = "Left Side(L)")

\* A lateral position left of the court, clamped into the Left band.
C4_Witness == area = "Left Side(L)" /\ y < -100

(***************************************************************************)
(* Claims about zone_diff_grid, checked under Spec.                        *)
(***************************************************************************)
Cells == {<<i, j>> : i \in DOMAIN y_centers, j \in DOMAIN x_centers}

AreaLabels == {"Left Side(L)", "Left Side Center(LC)", "Center(C)",
               "Right Side Center(RC)", "Right Side(R)", "Back Court(BC)", "None"}

\* The key <<basic, area>> that a label string "basic_area" encodes.
GridLabels == {CellLabel[c[1]][c[2]] : c \in Cells}
KeyOfLabel ==
    Tabulated([l \in GridLabels |->
        CHOOSE k \in BasicZones \X AreaLabels : k[1] \o "_" \o k[2] = l])

\* The first cell, in row-major order, that carries a label.
FirstCellOf ==
    Tabulated([l \in GridLabels |->
        CHOOSE c \in Cells :
            /\ CellLabel[c[1]][c[2]] = l
            /\ \A d \in Cells : CellLabel[d[1]][d[2]] = l =>
                    (c[1] < d[1] \/ (c[1] = d[1] /\ c[2] <= d[2]))])

GridReturned == zdg.state = "returned"

\* The post-collapse aggregates of a key: the player's percentage (0.0 for a key
\* without attempts, as _safe_ratio gives) and the league's (the player's own
\* where the league has none, as the merge substitutes).
C2_PlayerPct(k) == IF k \in DOMAIN zdg.pl THEN zdg.pl[k].player_fg ELSE Zero
C2_LeaguePct(k) == IF k \in DOMAIN zdg.lg THEN zdg.lg[k].league_fg ELSE C2_PlayerPct(k)

\* C2 as stated: every cell's Zdiff is player_pct(key) - league_pct(key) for the
\* key its label encodes.
C2_EveryCellIsKeyDifference ==
    GridReturned =>
        \A c \in Cells :
            LET k == KeyOfLabel[zdg.labels[c[1]][c[2]]]
            IN  zdg.Zdiff[c[1]][c[2]] = FSub(C2_PlayerPct(k), C2_LeaguePct(k))

\* C2 amended: every cell whose key has a row in the collapsed player table
\* carries the player's percentage minus the league's (the player's own where the
\* league has none); every other cell carries 0.0; cells with the same label
\* carry the same value.
C2_CellsCarryKeyDifferential ==
    GridReturned =>
        \A c \in Cells :
            LET l == zdg.labels[c[1]][c[2]]
                k == KeyOfLabel[l]
                d == zdg.Zdiff[c[1]][c[2]]
                f == FirstCellOf[l]
            IN  /\ k \in DOMAIN zdg.pl =>
                    d = FSub(zdg.pl[k].player_fg,
                             IF k \in DOMAIN zdg.lg THEN zdg.lg[k].league_fg
                             ELSE zdg.pl[k].player_fg)
                /\ k \notin DOMAIN zdg.pl => d = Zero
                /\ d = zdg.Zdiff[f[1]][f[2]]

\* The grid holds both a cell with a nonzero differential and a cell whose key
\* has no row although the league has one for it.
C2_Witness ==
    /\ GridReturned
    /\ \E c \in Cells : zdg.Zdiff[c[1]][c[2]] \notin {Zero, NaN}
    /\ \E c \in Cells :
            /\ CellKey[c[1]][c[2]] \notin DOMAIN zdg.pl
            /\ CellKey[c[1]][c[2]] \in DOMAIN zdg.lg

\* The collapse as the specification words it: Above the Break 3 rows go
\* L, LC -> L and R, RC -> R and C -> C; rows of other zones keep their area.
ClaimedKey(k) ==
    IF k[1] # "Above the Break 3" THEN k
    ELSE IF k[2] \in {"Left Side(L)", "Left Side Center(LC)"} THEN <<k[1], "Left Side(L)">>
    ELSE IF k[2] \in {"Right Side(R)", "Right Side Center(RC)"} THEN <<k[1], "Right Side(R)">>
    ELSE <<k[1], "Center(C)">>

\* The rows of a table's row sequence that are kept (area not dropped) and that
\* the collapse sends to key k2.
RowsInto(rows, k2) ==
    {i \in DOMAIN rows : rows[i].SHOT_ZONE_AREA \notin {"Back Court(BC)", "None"}
                         /\ ClaimedKey(Key(rows[i])) = k2}

\* p is the fraction n / d (d > 0), by cross multiplication.
IsRatio(p, n, d) == p[2] > 0 /\ p[1] * d = n * p[2]

\* C5: the Above-the-Break collapse is idempotent on every area label, and
\* collapsing and re-aggregating the already collapsed player and league tables
\* leaves their keys, attempts, makes and percentages as they are.
C5_CollapseIdempotent ==
    /\ \A a \in AreaLabels \cup {"", "Left Side (L)"} :
            _collapse_atb_area(_collapse_atb_area(a)) = _collapse_atb_area(a)
    /\ GridReturned =>
            /\ CollapsePlayer(zdg.pl) = zdg.pl
            /\ CollapseLeague(zdg.lg) = zdg.lg

\* Both collapsed tables hold an Above the Break 3 row that two rows merged into.
C5_Witness ==
    /\ GridReturned
    /\ \E k \in DOMAIN zdg.pl : Cardinality(CollapsedFrom(zdg.pl1, k)) = 2
    /\ \E k \in DOMAIN zdg.lg : Cardinality(CollapsedFrom(zdg.lg1, k)) = 2

\* C6: after the collapse the player table has exactly the keys the kept shots
\* map to, with attempts and makes summed over those shots and
\* player_fg = makes / attempts; only Above the Break 3 rows are remapped.  The
\* shots of scenario 3 give the single row (ATB, L): 10 attempts, 4 makes, 0.4.
C6_PlayerCollapseSums ==
    GridReturned =>
        LET rows == player_df.rows
        IN  /\ DOMAIN zdg.pl = {k2 \in {ClaimedKey(Key(rows[i])) : i \in DOMAIN rows} :
                                    RowsInto(rows, k2) # {}}
            /\ \A k2 \in DOMAIN zdg.pl :
                    /\ zdg.pl[k2].att = Cardinality(RowsInto(rows, k2))
                    /\ zdg.pl[k2].made =
                        Cardinality({i \in RowsInto(rows, k2) : rows[i].SHOT_MADE_FLAG = 1})
                    /\ zdg.pl[k2].att =
                        SetSum([k \in DOMAIN zdg.pl1 |-> zdg.pl1[k].att],
                               {k \in DOMAIN zdg.pl1 : ClaimedKey(k) = k2})
                    /\ IsRatio(zdg.pl[k2].player_fg, zdg.pl[k2].made, zdg.pl[k2].att)
            /\ rows = Scenario3Rows =>
                    zdg.pl = (<<"Above the Break 3", "Left Side(L)">> :>
                                [att |-> 10, made |-> 4, player_fg |-> <<2, 5>>])

\* Scenario 3 has run: the L row (4 attempts, 1 made) and the LC row (6, 3)
\* became one row.
C6_Witness ==
    /\ GridReturned
    /\ player_df.rows = Scenario3Rows
    /\ zdg.pl1[<<"Above the Break 3", "Left Side(L)">>].att = 4
    /\ zdg.pl1[<<"Above the Break 3", "Left Side Center(LC)">>].made = 3
    /\ zdg.pl[<<"Above the Break 3", "Left Side(L)">>].att = 10

\* Sums of a league column over the kept league rows that collapse into key k2.
C7_Makes(k2) ==
    SeqSum([i \in DOMAIN league_df.rows |->
        IF i \in RowsInto(league_df.rows, k2) THEN league_df.rows[i].FGM ELSE 0])
C7_Attempts(k2) ==
    SeqSum([i \in DOMAIN league_df.rows |->
        IF i \in RowsInto(league_df.rows, k2) THEN league_df.rows[i].FGA ELSE 0])

\* The pre-collapse league rows that collapse into key k2.
C7_Merged(k2) == {k \in DOMAIN zdg.lg1 : ClaimedKey(k) = k2}

\* The mean of the merged rows' percentages.
C7_Mean(k2) ==
    FDivInt(FSetSum([k \in DOMAIN zdg.lg1 |-> zdg.lg1[k].league_fg], C7_Merged(k2)),
            Cardinality(C7_Merged(k2)))

\* C7 as stated: the collapsed league percentage is the mean of the merged rows'
\* percentages, and, when the league input has the FGM and FGA columns, it is
\* sum of makes over sum of attempts of the merged rows.
C7_LeagueWeightedWhenAttempts ==
    GridReturned =>
        \A k2 \in DOMAIN zdg.lg :
            /\ zdg.lg[k2].league_fg = C7_Mean(k2)
            /\ ({"FGM", "FGA"} \subseteq league_df.cols /\ C7_Attempts(k2) > 0) =>
                    IsRatio(zdg.lg[k2].league_fg, C7_Makes(k2), C7_Attempts(k2))

\* C7 amended: the collapsed league percentage is the unweighted mean of the
\* merged rows' percentages whether or not the league input carries attempt
\* counts; it is sum of makes over sum of attempts when a single row maps to
\* the key.
C7_LeagueUnweightedMean ==
    GridReturned =>
        /\ DOMAIN zdg.lg = {ClaimedKey(k) : k \in DOMAIN zdg.lg1}
        /\ \A k2 \in DOMAIN zdg.lg :
            /\ zdg.lg[k2].league_fg = C7_Mean(k2)
            /\ ({"FGM", "FGA"} \subseteq league_df.cols /\ C7_Attempts(k2) > 0
                    /\ Cardinality(C7_Merged(k2)) = 1) =>
                    IsRatio(zdg.lg[k2].league_fg, C7_Makes(k2), C7_Attempts(k2))

\* Two league rows with attempt counts and different percentages were merged.
C7_Witness ==
    /\ GridReturned
    /\ {"FGM", "FGA"} \subseteq league_df.cols
    /\ \E k2 \in DOMAIN zdg.lg :
            /\ Cardinality(C7_Merged(k2)) = 2
            /\ \E k \in C7_Merged(k2) : zdg.lg1[k].league_fg # zdg.lg[k2].league_fg

\* The league rows of a group with key k, and their attempts.
C8_LeagueAttempts(k) ==
    SeqSum([i \in DOMAIN league_df.rows |->
        IF Key(league_df.rows[i]) = k THEN league_df.rows[i].FGA ELSE 0])

\* C8: _safe_ratio(m, a) is 0.0 for a = 0 and m / a otherwise (0 <= m <= a), and
\* no percentage of the player table, of the league table (whatever its shape)
\* or of the collapsed player table is NaN or Inf; a league group whose attempts
\* sum to 0 has percentage 0.0.
C8_RatiosGuarded ==
    /\ \A a \in 0 .. MaxAttempts : \A m \in 0 .. a :
            IF a = 0 THEN _safe_ratio(m, a) = <<0, 1>>
            ELSE IsRatio(_safe_ratio(m, a), m, a)
    /\ zdg.state # "idle" =>
            /\ \A k \in DOMAIN zdg.pl0 : zdg.pl0[k].player_fg[2] > 0
            /\ \A k \in DOMAIN zdg.lg0 : zdg.lg0[k].league_fg[2] > 0
            /\ \A k \in DOMAIN zdg.pl : zdg.pl[k].player_fg[2] > 0
            /\ \A k \in DOMAIN zdg.pl : zdg.pl[k].att = 0 => zdg.pl[k].player_fg = <<0, 1>>
            /\ "FGA" \in league_df.cols =>
                    \A k \in DOMAIN zdg.lg0 :
                        C8_LeagueAttempts(k) = 0 => zdg.lg0[k].league_fg = <<0, 1>>

\* A league table with makes and attempts that has a group of 0 attempts next to
\* a group with attempts.
C8_Witness ==
    /\ GridReturned
    /\ {"FGM", "FGA"} \subseteq league_df.cols
    /\ \E k \in DOMAIN zdg.lg0 : C8_LeagueAttempts(k) = 0 /\ zdg.lg0[k].league_fg = <<0, 1>>
    /\ \E k \in DOMAIN zdg.lg0 : C8_LeagueAttempts(k) > 0

\* C10: a key with player attempts and no league percentage after the left join
\* gets the player's own percentage as league percentage, differential 0.0, and
\* every grid cell with that key shows 0.0.
C10_MissingLeagueGivesZero ==
    GridReturned =>
        \A k \in DOMAIN zdg.pl :
            k \notin DOMAIN zdg.lg =>
                /\ zdg.zt[k].league_fg = zdg.pl[k].player_fg
                /\ zdg.zt[k].diff = <<0, 1>>
                /\ \A c \in Cells :
                        KeyOfLabel[zdg.labels[c[1]][c[2]]] = k => zdg.Zdiff[c[1]][c[2]] = <<0, 1>>

\* The player made shots in a zone of the grid that the (non-empty) league table
\* does not cover.
C10_Witness ==
    /\ GridReturned
    /\ DOMAIN zdg.lg # {}
    /\ \E k \in DOMAIN zdg.pl :
            /\ k \notin DOMAIN zdg.lg
            /\ zdg.pl[k].made > 0
            /\ \E c \in Cells : CellKey[c[1]][c[2]] = k

(***************************************************************************)
(* Claims about player_zone_fg_table, checked under SpecPlayer.            *)
(***************************************************************************)
\* The input rows with key k, and those of them that were made.
C9_Rows(k) == {i \in DOMAIN player_df.rows : Key(player_df.rows[i]) = k}
C9_Made(k) ==
    {i \in C9_Rows(k) : "SHOT_MADE_FLAG" \in player_df.cols
                        /\ player_df.rows[i].SHOT_MADE_FLAG = 1}

SchemaPlayerPool ==
    <<Shot("Above the Break 3", "Left Side(L)", 1),
      Shot("Mid-Range", "Left Side Center(LC)", 0)>>

SchemaLeaguePool ==
    <<[SHOT_ZONE_BASIC |-> "Above the Break 3", SHOT_ZONE_AREA |-> "Left Side(L)",
       FGM |-> 1, FGA |-> 2, FG_PCT |-> <<1, 2>>, SHOT_MADE_FLAG |-> 1],
      [SHOT_ZONE_BASIC |-> "Mid-Range", SHOT_ZONE_AREA |-> "Left Side Center(LC)",
       FGM |-> 1, FGA |-> 4, FG_PCT |-> <<1, 4>>, SHOT_MADE_FLAG |-> 0]>>

SchemaPlayerColSets == SUBSET {"SHOT_ZONE_BASIC", "SHOT_ZONE_AREA", "SHOT_MADE_FLAG"}

SchemaLeagueColSets ==
    {z \cup m : z \in SUBSET ZoneCols, m \in {{"FGM", "FGA"}, {"FG_PCT"}, {}}}

InitSchema ==
    /\ NoPoint
    /\ \E cols \in SchemaPlayerColSets, rows \in BagsUpTo(SchemaPlayerPool, MaxSchemaRows) :
            player_df = [cols |-> cols, rows |-> rows]
    /\ \E cols \in SchemaLeagueColSets, rows \in BagsUpTo(SchemaLeaguePool, MaxSchemaRows) :
            league_df = [cols |-> cols, rows |-> rows]
    /\ pl_tab = Idle
    /\ zdg = IdleGrid
    /\ NoCalls

LeagueZoneFgTable ==
    /\ lg_tab = Idle
    /\ lg_tab' = league_zone_fg_table(league_df)
    /\ UNCHANGED <<core, bnd, shot, flt, view, load, app>>

NextSchema == PlayerZoneFgTable \/ LeagueZoneFgTable \/ ZoneDiffGrid

SpecSchema == InitSchema /\ [][NextSchema]_vars

(***************************************************************************)
(* Claims about missing data and schema errors, checked under SpecSchema.  *)
(***************************************************************************)
\* C11: with an empty league table (and a player table that has its zone
\* labels) zone_diff_grid returns a grid and every cell of it is 0.0.
C11_EmptyLeagueGivesFlatGrid ==
    (zdg.state # "idle" /\ Len(league_df.rows) = 0 /\ ZoneCols \subseteq player_df.cols) =>
        /\ GridReturned
        /\ \A c \in Cells : zdg.Zdiff[c[1]][c[2]] = Zero

\* C12: each zone table raises, giving no table, exactly when a zone label
\* column is absent from its input, and zone_diff_grid then raises the same
\* error and builds no grid.
C12_SchemaErrorsRaised ==
    /\ pl_tab # Idle =>
            IF ZoneCols \subseteq player_df.cols THEN pl_tab.error = ""
            ELSE pl_tab.error = "ValueError" /\ pl_tab.table = <<>>
    /\ lg_tab # Idle =>
            IF ZoneCols \subseteq league_df.cols THEN lg_tab.error = ""
            ELSE lg_tab.error = "ValueError" /\ lg_tab.table = <<>>
    /\ (zdg.state # "idle" /\ ~(ZoneCols \subseteq player_df.cols
                                  /\ ZoneCols \subseteq league_df.cols)) =>
            /\ zdg.state = "ValueError"
            /\ zdg.Zdiff = <<>>
            /\ zdg.labels = <<>>
            /\ zdg.zt = <<>>

\* A player table with rows but without SHOT_ZONE_AREA met a well-formed league
\* table: the player table call and zone_diff_grid raised, the league call not.
C12_Witness ==
    /\ "SHOT_ZONE_AREA" \notin player_df.cols
    /\ Len(player_df.rows) > 0
    /\ pl_tab.error = "ValueError"
    /\ lg_tab # Idle /\ lg_tab.error = "" /\ DOMAIN lg_tab.table # {}
    /\ zdg.state = "ValueError"

(***************************************************************************)
(* A call of league_zone_fg_table on a league table of any column shape.   *)
(***************************************************************************)
LeaguePoolKeys ==
    {<<"Above the Break 3", "Left Side(L)">>, <<"Mid-Range", "Left Side Center(LC)">>}

\* Among the rows are ones without attempts but with a percentage.
LeaguePoolStats ==
    {[FGM |-> 0, FGA |-> 0, FG_PCT |-> <<1, 2>>, SHOT_MADE_FLAG |-> 0],
     [FGM |-> 1, FGA |-> 2, FG_PCT |-> <<1, 2>>, SHOT_MADE_FLAG |-> 1],
     [FGM |-> 1, FGA |-> 4, FG_PCT |-> <<1, 4>>, SHOT_MADE_FLAG |-> 0]}

LeaguePool ==
    {[SHOT_ZONE_BASIC |-> k[1], SHOT_ZONE_AREA |-> k[2], FGM |-> st.FGM, FGA |-> st.FGA,
      FG_PCT |-> st.FG_PCT, SHOT_MADE_FLAG |-> st.SHOT_MADE_FLAG] :
        k \in LeaguePoolKeys, st \in LeaguePoolStats}

LeaguePoolColSets ==
    SUBSET {"SHOT_ZONE_BASIC", "SHOT_ZONE_AREA", "FGM", "FGA", "FG_PCT", "SHOT_MADE_FLAG"}

InitLeague ==
    /\ NoPoint
    /\ player_df = NoTable
    /\ \E cols \in LeaguePoolColSets, rows \in BagsUpTo(ListOf(LeaguePool), MaxLeaguePoolRows) :
            league_df = [cols |-> cols, rows |-> rows]
    /\ pl_tab = Idle
    /\ zdg = IdleGrid
    /\ NoCalls

NextLeague == LeagueZoneFgTable

SpecLeague == InitLeague /\ [][NextLeague]_vars

(***************************************************************************)
(* Claims about league_zone_fg_table, checked under SpecLeague.            *)
(***************************************************************************)
\* The input has the zone labels and none of the three metric shapes.
C13_NoMetricShape ==
    /\ ZoneCols \subseteq league_df.cols
    /\ ~({"FGM", "FGA"} \subseteq league_df.cols)
    /\ "FG_PCT" \notin league_df.cols
    /\ "SHOT_MADE_FLAG" \notin league_df.cols

\* C13: on an input with the zone labels and none of the metric shapes,
\* league_zone_fg_table raises nothing and returns a table without rows.
C13_NoMetricGivesEmptyTable ==
    (lg_tab # Idle /\ C13_NoMetricShape) =>
        /\ lg_tab.error = ""
        /\ DOMAIN lg_tab.table = {}

\* Two rows with zone labels and attempts only (FGA without FGM) gave no row.
C13_Witness ==
    /\ lg_tab # Idle
    /\ league_df.cols = ZoneCols \cup {"FGA"}
    /\ Len(league_df.rows) = 2
    /\ lg_tab.error = ""
    /\ DOMAIN lg_tab.table = {}

\* The league rows of key k, and integer sums over them: with P the product of
\* the rows' percentage denominators, P * sum(FG_PCT * FGA) and P * sum(FG_PCT).
C14_Group(k) == {i \in DOMAIN league_df.rows : Key(league_df.rows[i]) = k}
C14_DenomProduct(k) ==
    LET RECURSIVE prod(_)
        prod(S) == IF S = {} THEN 1
                   ELSE LET i == CHOOSE i \in S : TRUE
                        IN  league_df.rows[i].FG_PCT[2] * prod(S \ {i})
    IN  prod(C14_Group(k))
C14_Attempts(k) ==
    SetSum([i \in DOMAIN league_df.rows |-> league_df.rows[i].FGA], C14_Group(k))
C14_WeightedSum(k) ==
    SetSum([i \in DOMAIN league_df.rows |->
                league_df.rows[i].FG_PCT[1] * league_df.rows[i].FGA
                    * (C14_DenomProduct(k) \div league_df.rows[i].FG_PCT[2])],
           C14_Group(k))
C14_PlainSum(k) ==
    SetSum([i \in DOMAIN league_df.rows |->
                league_df.rows[i].FG_PCT[1]
                    * (C14_DenomProduct(k) \div league_df.rows[i].FG_PCT[2])],
           C14_Group(k))

\* C14: with FG_PCT and FGA but no FGM the table holds per key
\* sum(FG_PCT * FGA) / max(sum(FGA), 1), which is 0 for a key without attempts;
\* with FG_PCT and no FGA it holds the unweighted mean of FG_PCT per key.
C14_WeightedMeanOfPct ==
    (lg_tab # Idle /\ ZoneCols \subseteq league_df.cols /\ "FG_PCT" \in league_df.cols) =>
        /\ lg_tab.error = ""
        /\ ("FGA" \in league_df.cols /\ "FGM" \notin league_df.cols) =>
                /\ DOMAIN lg_tab.table = {Key(league_df.rows[i]) : i \in DOMAIN league_df.rows}
                /\ \A k \in DOMAIN lg_tab.table :
                        /\ IsRatio(lg_tab.table[k].league_fg, C14_WeightedSum(k),
                                   C14_DenomProduct(k) * Max(C14_Attempts(k), 1))
                        /\ C14_Attempts(k) = 0 => lg_tab.table[k].league_fg = Zero
        /\ "FGA" \notin league_df.cols =>
                /\ DOMAIN lg_tab.table = {Key(league_df.rows[i]) : i \in DOMAIN league_df.rows}
                /\ \A k \in DOMAIN lg_tab.table :
                        IsRatio(lg_tab.table[k].league_fg, C14_PlainSum(k),
                                C14_DenomProduct(k) * Cardinality(C14_Group(k)))

\* A key with rows 1/2 on 2 attempts and 1/4 on 4 attempts got 1/3, which is
\* not their plain mean 3/8.
C14_Witness ==
    /\ lg_tab # Idle /\ lg_tab.error = ""
    /\ league_df.cols = ZoneCols \cup {"FG_PCT", "FGA"}
    /\ \E k \in DOMAIN lg_tab.table :
            /\ Cardinality(C14_Group(k)) = 2
            /\ C14_Attempts(k) = 6
            /\ lg_tab.table[k].league_fg = <<1, 3>>

(***************************************************************************)
(* Further claims about zone_diff_grid, checked under Spec.                *)
(***************************************************************************)
\* C15: every cell whose key has no row in the merged table holds 0.0, also
\* when the league table has a row for that key, and zone_diff_grid returns
\* whenever both tables, without the dropped areas, have rows.
C15_AbsentKeyCellsAreZero ==
    /\ GridReturned =>
            \A c \in Cells :
                CellKey[c[1]][c[2]] \notin DOMAIN zdg.zt => zdg.Zdiff[c[1]][c[2]] = Zero
    /\ (zdg.state # "idle" /\ DOMAIN DropBadAreas(zdg.pl0) # {}
            /\ DOMAIN DropBadAreas(zdg.lg0) # {}) => GridReturned

\* The league has a nonzero percentage for a zone of the grid in which the
\* player has no attempt, next to a zone where the player differs from the league.
C15_Witness ==
    /\ GridReturned
    /\ \E c \in Cells :
            /\ CellKey[c[1]][c[2]] \notin DOMAIN zdg.zt
            /\ CellKey[c[1]][c[2]] \in DOMAIN zdg.lg
            /\ zdg.lg[CellKey[c[1]][c[2]]].league_fg # Zero
    /\ \E k \in DOMAIN zdg.zt : zdg.zt[k].diff # Zero

(***************************************************************************)
(* heatmap.py: add_zone_boundaries_from_labels.  A grid is a function from *)
(* row index 0 .. ny-1 to a function from column index 0 .. nx-1; a trace   *)
(* is the line added to the figure.                                        *)
(***************************************************************************)
\* np.diff(c) of a vector indexed from 0.
Diff(c) == [k \in 0 .. (Cardinality(DOMAIN c) - 2) |-> c[k + 1] - c[k]]

\* np.median of a vector indexed from 0: the middle of the sorted values, the
\* mean of the two middle ones for an even count.
Median(d) ==
    LET n == Cardinality(DOMAIN d)
        \* the value with exactly r values sorted before it
        rank(r) == CHOOSE v \in {d[k] : k \in DOMAIN d} :
                        /\ Cardinality({k \in DOMAIN d : d[k] < v}) <= r
                        /\ Cardinality({k \in DOMAIN d : d[k] <= v}) > r
    IN  IF n % 2 = 1 THEN rank(n \div 2)
        ELSE (rank(n \div 2 - 1) + rank(n \div 2)) \div 2

\* np.concatenate(([c[0] - d/2], (c[:-1] + c[1:]) / 2, [c[-1] + d/2]))
Edges(c, d) ==
    LET n == Cardinality(DOMAIN c)
    IN  [k \in 0 .. n |->
            IF k = 0 THEN c[0] - d \div 2
            ELSE IF k = n THEN c[n - 1] + d \div 2
            ELSE (c[k - 1] + c[k]) \div 2]

\* _add_segment: the halo trace, if any, then the main trace.
_add_segment(x0, x1, y0, y1, halo) ==
    (IF halo THEN <<[kind |-> "halo", x0 |-> x0, x1 |-> x1, y0 |-> y0, y1 |-> y1]>> ELSE <<>>)
    \o <<[kind |-> "main", x0 |-> x0, x1 |-> x1, y0 |-> y0, y1 |-> y1]>>

\* The traces f[k], ..., f[n-1] in loop order.
RECURSIVE Collect(_, _, _)
Collect(f, k, n) ==
    IF k >= n THEN <<>>
    ELSE IF k + 1 = n THEN f[k]
    ELSE Collect(f, k, (k + n) \div 2) \o Collect(f, (k + n) \div 2, n)

\* Faulty variant: a vertical segment is put on the left edge of the left cell.
add_zone_boundaries_from_labels_LeftEdge(Xg, Yg, labels, halo) ==
    LET ny == Cardinality(DOMAIN labels)
        nx == Cardinality(DOMAIN labels[0])
        x_cent == Xg[0]
        y_cent == [i \in DOMAIN Yg |-> Yg[i][0]]
        dx == IF nx > 1 THEN Median(Diff(x_cent)) ELSE 8
        dy == IF ny > 1 THEN Median(Diff(y_cent)) ELSE 8
        x_edges == Edges(x_cent, dx)
        y_edges == Edges(y_cent, dy)
        \* 4) vertical boundaries: compare (i, j) with (i, j+1)
        vertical == [k \in 0 .. (ny * (nx - 1) - 1) |->
            LET i == k \div (nx - 1)
                j == k % (nx - 1)
                xe == x_edges[j]
            IN  IF labels[i][j] # labels[i][j + 1]
                    THEN _add_segment(xe, xe, y_edges[i], y_edges[i + 1], halo)
                    ELSE <<>>]
        \* 5) horizontal boundaries: compare (i, j) with (i+1, j)
        horizontal == [k \in 0 .. ((ny - 1) * nx - 1) |->
            LET i == k \div nx
                j == k % nx
                ye == y_edges[i + 1]
            IN  IF labels[i][j] # labels[i + 1][j]
                    THEN _add_segment(x_edges[j], x_edges[j + 1], ye, ye, halo)
                    ELSE <<>>]
    IN  Collect(vertical, 0, ny * (nx - 1)) \o Collect(horizontal, 0, (ny - 1) * nx)

add_zone_boundaries_from_labels(Xg, Yg, labels, halo) ==
    LET ny == Cardinality(DOMAIN labels)
        nx == Cardinality(DOMAIN labels[0])
        x_cent == Xg[0]
        y_cent == [i \in DOMAIN Yg |-> Yg[i][0]]
        dx == IF nx > 1 THEN Median(Diff(x_cent)) ELSE 8
        dy == IF ny > 1 THEN Median(Diff(y_cent)) ELSE 8
        x_edges == Edges(x_cent, dx)
        y_edges == Edges(y_cent, dy)
        \* 4) vertical boundaries: compare (i, j) with (i, j+1)
        vertical == [k \in 0 .. (ny * (nx - 1) - 1) |->
            LET i == k \div (nx - 1)
                j == k % (nx - 1)
                xe == x_edges[j + 1]
            IN  IF labels[i][j] # labels[i][j + 1]
                    THEN _add_segment(xe, xe, y_edges[i], y_edges[i + 1], halo)
                    ELSE <<>>]
        \* 5) horizontal boundaries: compare (i, j) with (i+1, j)
        horizontal == [k \in 0 .. ((ny - 1) * nx - 1) |->
            LET i == k \div nx
                j == k % nx
                ye == y_edges[i + 1]
            IN  IF labels[i][j] # labels[i + 1][j]
                    THEN _add_segment(x_edges[j], x_edges[j + 1], ye, ye, halo)
                    ELSE <<>>]
    IN  Collect(vertical, 0, ny * (nx - 1)) \o Collect(horizontal, 0, (ny - 1) * nx)

\* Grids of ny rows and nx columns as zone_diff_grid lays them out: centres
\* bin_ft apart, from the baseline and the left sideline.
GridX(ny, nx) == [i \in 0 .. (ny - 1) |-> [j \in 0 .. (nx - 1) |-> bin_ft \div 2 + j * bin_ft]]
GridY(ny, nx) ==
    [i \in 0 .. (ny - 1) |-> [j \in 0 .. (nx - 1) |->
        (0 - COURT_WIDTH \div 2) + bin_ft \div 2 + i * bin_ft]]

BoundaryLabels == {"Mid-Range_Center(C)", "In The Paint (Non-RA)_Center(C)"}

InitBoundaries ==
    /\ NoPoint
    /\ NoTables
    /\ lg_tab = Idle
    /\ \E ny \in 1 .. MaxGrid, nx \in 1 .. MaxGrid, halo \in BOOLEAN :
        \E labels \in [0 .. (ny - 1) -> [0 .. (nx - 1) -> BoundaryLabels]] :
            bnd = [state |-> "args", X |-> GridX(ny, nx), Y |-> GridY(ny, nx),
                   labels |-> labels, halo |-> halo, traces |-> <<>>]
    /\ shot = IdleShot
    /\ flt = IdleFlt
    /\ view = IdleView
    /\ load = IdleLoad
    /\ app = IdleApp

AddZoneBoundariesFromLabels ==
    /\ bnd.state = "args"
    /\ bnd' = [bnd EXCEPT !.state = "returned",
                          !.traces = add_zone_boundaries_from_labels(bnd.X, bnd.Y,
                                                                     bnd.labels, bnd.halo)]
    /\ UNCHANGED <<core, lg_tab, shot, flt, view, load, app>>

NextBoundaries == AddZoneBoundariesFromLabels

SpecBoundaries == InitBoundaries /\ [][NextBoundaries]_vars

(***************************************************************************)
(* Claims about the zone boundaries, checked under SpecBoundaries.         *)
(***************************************************************************)
C16_Ny == Cardinality(DOMAIN bnd.labels)
C16_Nx == Cardinality(DOMAIN bnd.labels[0])

\* The bin edges of the claim: centre - bin/2 for edge k < n, last centre + bin/2.
C16_XEdge(k) == IF k < C16_Nx THEN bnd.X[0][k] - 4 ELSE bnd.X[0][C16_Nx - 1] + 4
C16_YEdge(k) == IF k < C16_Ny THEN bnd.Y[k][0] - 4 ELSE bnd.Y[C16_Ny - 1][0] + 4

\* The segments <<x0, x1, y0, y1>> the claim asks for.
C16_VerticalExpected ==
    {<<C16_XEdge(j + 1), C16_XEdge(j + 1), C16_YEdge(i), C16_YEdge(i + 1)>> :
        <<i, j>> \in {c \in (0 .. (C16_Ny - 1)) \X (0 .. (C16_Nx - 2)) :
                        bnd.labels[c[1]][c[2]] # bnd.labels[c[1]][c[2] + 1]}}
C16_HorizontalExpected ==
    {<<C16_XEdge(j), C16_XEdge(j + 1), C16_YEdge(i + 1), C16_YEdge(i + 1)>> :
        <<i, j>> \in {c \in (0 .. (C16_Ny - 2)) \X (0 .. (C16_Nx - 1)) :
                        bnd.labels[c[1]][c[2]] # bnd.labels[c[1] + 1][c[2]]}}

\* The main traces drawn, as positions in the trace list and as segments.
C16_Main == {k \in DOMAIN bnd.traces : bnd.traces[k].kind = "main"}
C16_Segment(k) == <<bnd.traces[k].x0, bnd.traces[k].x1, bnd.traces[k].y0, bnd.traces[k].y1>>

\* C16: the segments drawn are exactly one per pair of horizontally or
\* vertically adjacent cells with different labels, on the edge the two cells
\* share and as long as that edge; none lies on the outer border of the grid;
\* with the halo each segment is drawn twice, halo first.
C16_SegmentsIffLabelsDiffer ==
    bnd.state = "returned" =>
        /\ {C16_Segment(k) : k \in C16_Main} = C16_VerticalExpected \cup C16_HorizontalExpected
        /\ Cardinality(C16_Main)
                = Cardinality(C16_VerticalExpected) + Cardinality(C16_HorizontalExpected)
        /\ \A k \in C16_Main :
                /\ bnd.traces[k].x0 = bnd.traces[k].x1 =>
                        bnd.traces[k].x0 \notin {C16_XEdge(0), C16_XEdge(C16_Nx)}
                /\ bnd.traces[k].y0 = bnd.traces[k].y1 =>
                        bnd.traces[k].y0 \notin {C16_YEdge(0), C16_YEdge(C16_Ny)}
        /\ IF bnd.halo
                THEN /\ Len(bnd.traces) = 2 * Cardinality(C16_Main)
                     /\ \A k \in C16_Main :
                            k > 1 /\ bnd.traces[k - 1] = [bnd.traces[k] EXCEPT !.kind = "halo"]
                ELSE Len(bnd.traces) = Cardinality(C16_Main)

\* A grid with a vertical and a horizontal segment and with neighbours of equal
\* label between which nothing is drawn.
C16_Witness ==
    /\ bnd.state = "returned"
    /\ C16_Nx = 3 /\ C16_Ny = 2
    /\ C16_VerticalExpected # {} /\ C16_HorizontalExpected # {}
    /\ Cardinality(C16_Main) < 7
    /\ bnd.halo

(***************************************************************************)
(* shots.py: nba_shot_to_court_xy, followed by classify_basic_zone.  Raw   *)
(* locations count tenths of a foot, which are not whole quarter feet: the  *)
(* court point is held in units of 1/20 ft, FineScale of them per quarter   *)
(* foot, and classified with the court constants in that unit.              *)
(***************************************************************************)
FineScale == 5

\* 1 / 10.0 ft per raw unit, in units of 1/20 ft.
INCHES_TO_FEET == 2

\* Faulty variant: the raw axes are not exchanged.
nba_shot_to_court_xy_Unswapped(loc_x_in, loc_y_in) ==
    <<FineScale * HOOP_X + loc_x_in * INCHES_TO_FEET, loc_y_in * INCHES_TO_FEET>>

nba_shot_to_court_xy(loc_x_in, loc_y_in) ==
    LET x_ft == FineScale * HOOP_X + loc_y_in * INCHES_TO_FEET
        y_ft == loc_x_in * INCHES_TO_FEET
    IN  <<x_ft, y_ft>>

\* classify_basic_zone on coordinates and padding counted in 1/u quarter feet.
classify_basic_zone_at(xf, yf, pad, u) ==
    LET half_paint == u * _HALF_PAINT + pad
        x0 == 0 - pad
        x1 == u * FT_LINE_X + pad
        d2 == Hypot2(xf - u * HOOP_X, yf - u * HOOP_Y)
        leq_x_meet ==
            \/ xf - u * HOOP_X <= 0
            \/ (xf - u * HOOP_X) * (xf - u * HOOP_X)
                 <= u * u * (THREE_PT_RADIUS * THREE_PT_RADIUS
                                - THREE_PT_CORNER * THREE_PT_CORNER)
    IN  IF d2 <= u * u * _RESTRICTED_R * _RESTRICTED_R
            THEN "Restricted Area"
        ELSE IF x0 <= xf /\ xf <= x1 /\ Abs(yf) <= half_paint
            THEN "In The Paint (Non-RA)"
        ELSE IF Abs(yf) >= u * THREE_PT_CORNER /\ leq_x_meet
            THEN (IF yf < 0 THEN "Left Corner 3" ELSE "Right Corner 3")
        ELSE IF d2 >= u * u * THREE_PT_RADIUS * THREE_PT_RADIUS
            THEN "Above the Break 3"
        ELSE "Mid-Range"

RawRange == (0 - MaxRaw) .. MaxRaw

InitShot ==
    /\ NoPoint
    /\ NoTables
    /\ lg_tab = Idle
    /\ bnd = IdleBnd
    /\ \E loc_x \in RawRange, loc_y \in RawRange :
            shot = [state |-> "args", LOC_X |-> loc_x, LOC_Y |-> loc_y,
                    x |-> 0, y |-> 0, zone |-> ""]
    /\ flt = IdleFlt
    /\ view = IdleView
    /\ load = IdleLoad
    /\ app = IdleApp

\* The raw location is transformed and the court point classified.
ClassifyShot ==
    /\ shot.state = "args"
    /\ LET xy == nba_shot_to_court_xy(shot.LOC_X, shot.LOC_Y)
       IN  shot' = [shot EXCEPT !.state = "returned", !.x = xy[1], !.y = xy[2],
                                !.zone = classify_basic_zone_at(xy[1], xy[2], 0, FineScale)]
    /\ UNCHANGED <<core, lg_tab, bnd, flt, view, load, app>>

NextShot == ClassifyShot

SpecShot == InitShot /\ [][NextShot]_vars

FilterCols ==
    {"PERIOD", "SHOT_MADE_FLAG", "VENUE", "OPPONENT", "ACTION_TYPE", "SHOT_DISTANCE"}

default_filter_state ==
    [keys |-> {"player", "season", "opponent", "periods", "context", "sample",
               "result", "venue", "action_type"},
     periods |-> <<1, 2, 3, 4, 5>>, result |-> "All", venue |-> "All",
     opponent |-> "None", action_type |-> "All", shot_distance |-> <<0, 100>>]

\* state.get(k) is not None: the key is held.
Has(state, k) == k \in state.keys

Elems(q) == {q[i] : i \in DOMAIN q}

\* out[mask]: the rows kept, in their order.
PeriodRows(rows, periods) == SelectSeq(rows, LAMBDA r : r.PERIOD \in Elems(periods))

MadeRows(rows, want) == SelectSeq(rows, LAMBDA r : r.SHOT_MADE_FLAG = want)

VenueRows(rows, v) == SelectSeq(rows, LAMBDA r : r.VENUE = v)

OpponentRows(rows, o) == SelectSeq(rows, LAMBDA r : r.OPPONENT = o)

ActionRows(rows, a) == SelectSeq(rows, LAMBDA r : r.ACTION_TYPE = a)

DistanceRows(rows, lo, hi) ==
    SelectSeq(rows, LAMBDA r : r.SHOT_DISTANCE >= lo /\ r.SHOT_DISTANCE <= hi)

\* The body of filter_df: a copy of df narrowed by each filter in turn.
filter_df(df, state) ==
    LET out0 == df.rows
        out1 == IF Has(state, "periods") /\ state.periods # <<>> /\ "PERIOD" \in df.cols
                    THEN PeriodRows(out0, state.periods) ELSE out0
        out2 == IF Has(state, "result") /\ state.result \in {"Makes", "Misses"}
                       /\ "SHOT_MADE_FLAG" \in df.cols
                    THEN MadeRows(out1, IF state.result = "Makes" THEN 1 ELSE 0)
                    ELSE out1
        out3 == IF Has(state, "venue") /\ state.venue \in {"Home", "Away"}
                       /\ "VENUE" \in df.cols
                    THEN VenueRows(out2, state.venue) ELSE out2
        out4 == IF Has(state, "opponent") /\ state.opponent \notin {"None", "All"}
                       /\ "OPPONENT" \in df.cols
                    THEN OpponentRows(out3, state.opponent) ELSE out3
        out5 == IF Has(state, "action_type") /\ state.action_type \notin {"None", "All"}
                       /\ "ACTION_TYPE" \in df.cols
                    THEN ActionRows(out4, state.action_type) ELSE out4
        out6 == IF Has(state, "shot_distance") /\ "SHOT_DISTANCE" \in df.cols
                    THEN DistanceRows(out5, state.shot_distance[1], state.shot_distance[2])
                    ELSE out5
    IN  [cols |-> df.cols, rows |-> out6]

\* The names bound in the module when its statements have run down to the
\* def of default_filter_state.
FiltersGlobals == {"pd", "default_filter_state"}

\* Executing the module: the top-level if statement after default_filter_state
\* evaluates the name show_heatmap; an unbound name raises NameError there
\* and the statements below it, the def of filter_df among them, do not run.
import_filters ==
    IF "show_heatmap" \in FiltersGlobals
        THEN [error |-> "", defined |-> FiltersGlobals \cup {"filter_df"}]
        ELSE [error |-> "NameError", defined |-> FiltersGlobals]

FilterRowPool ==
    {[PERIOD |-> 1, SHOT_MADE_FLAG |-> 1, VENUE |-> "Home", OPPONENT |-> "BOS",
      ACTION_TYPE |-> "Layup", SHOT_DISTANCE |-> 3],
     [PERIOD |-> 2, SHOT_MADE_FLAG |-> 0, VENUE |-> "Away", OPPONENT |-> "BOS",
      ACTION_TYPE |-> "Jump Shot", SHOT_DISTANCE |-> 25],
     [PERIOD |-> 5, SHOT_MADE_FLAG |-> 1, VENUE |-> "Away", OPPONENT |-> "LAL",
      ACTION_TYPE |-> "Layup", SHOT_DISTANCE |-> 25],
     [PERIOD |-> 6, SHOT_MADE_FLAG |-> 0, VENUE |-> "Home", OPPONENT |-> "LAL",
      ACTION_TYPE |-> "Jump Shot", SHOT_DISTANCE |-> 3]}

FilterColSets == {FilterCols, FilterCols \ {"PERIOD"}, {"SHOT_MADE_FLAG"}}

\* The states the sidebar can build on top of default_filter_state, and
\* states that lack the periods or the shot_distance key.
FilterStates ==
    {[default_filter_state EXCEPT
         !.keys = (@ \cup {"shot_distance"}) \ drop,
         !.periods = p, !.result = r, !.venue = v, !.opponent = o,
         !.action_type = a, !.shot_distance = d] :
       drop \in {{}, {"periods"}, {"shot_distance"}},
       p \in {<<>>, <<1>>, <<1, 2, 3, 4, 5>>},
       r \in {"All", "Makes", "Misses"},
       v \in {"All", "Home"},
       o \in {"All", "BOS"},
       a \in {"All", "Layup"},
       d \in {<<0, 100>>, <<0, 4>>}}

InitFilter ==
    /\ NoPoint
    /\ NoTables
    /\ lg_tab = Idle
    /\ bnd = IdleBnd
    /\ shot = IdleShot
    /\ \E cols \in FilterColSets, rows \in SeqsUpTo(FilterRowPool, MaxFilterRows),
          state \in FilterStates :
            flt = [state |-> "args", df |-> [cols |-> cols, rows |-> rows],
                   filters |-> state, error |-> "",
                   out |-> [cols |-> {}, rows |-> <<>>]]
    /\ view = IdleView
    /\ load = IdleLoad
    /\ app = IdleApp

\* from src.filters import filter_df, then filter_df(df, state).
FilterDf ==
    /\ flt.state = "args"
    /\ flt' = IF "filter_df" \in import_filters.defined
                  THEN [flt EXCEPT !.state = "returned",
                                   !.out = filter_df(flt.df, flt.filters)]
                  ELSE [flt EXCEPT !.state = "returned",
                                   !.error = import_filters.error]
    /\ UNCHANGED <<core, lg_tab, bnd, shot, view, load, app>>

NextFilter == FilterDf

SpecFilter == InitFilter /\ [][NextFilter]_vars

(***************************************************************************)
(* Claims about filtering, checked under SpecFilter.                       *)
(***************************************************************************)
\* A filter is present and non-default: its key holds a restricting value and
\* the table has the column.
C18_Active(k, col) ==
    /\ k \in flt.filters.keys
    /\ col \in flt.df.cols
    /\ CASE k = "periods" -> flt.filters.periods # <<>>
         [] k = "result" -> flt.filters.result # "All"
         [] k = "venue" -> flt.filters.venue # "All"
         [] k = "opponent" -> flt.filters.opponent \notin {"None", "All"}
         [] k = "action_type" -> flt.filters.action_type \notin {"None", "All"}
         [] OTHER -> TRUE

C18_Keeps(r) ==
    /\ C18_Active("periods", "PERIOD") =>
            \E i \in DOMAIN flt.filters.periods : flt.filters.periods[i] = r.PERIOD
    /\ C18_Active("result", "SHOT_MADE_FLAG") =>
            (flt.filters.result = "Makes") = (r.SHOT_MADE_FLAG = 1)
    /\ C18_Active("venue", "VENUE") => r.VENUE = flt.filters.venue
    /\ C18_Active("opponent", "OPPONENT") => r.OPPONENT = flt.filters.opponent
    /\ C18_Active("action_type", "ACTION_TYPE") => r.ACTION_TYPE = flt.filters.action_type
    /\ C18_Active("shot_distance", "SHOT_DISTANCE") =>
            /\ flt.filters.shot_distance[1] <= r.SHOT_DISTANCE
            /\ r.SHOT_DISTANCE <= flt.filters.shot_distance[2]

\* C18: a call of filter_df returns exactly the rows of the input table that
\* satisfy every present, non-default filter of the state, in their original
\* order.  (The input table is never assigned: flt.df is the same before and
\* after.)
C18_FilterIsConjunction ==
    flt.state = "returned" =>
        /\ flt.error = ""
        /\ flt.out.cols = flt.df.cols
        /\ flt.out.rows = SelectSeq(flt.df.rows, C18_Keeps)

(***************************************************************************)
(* viz_3d.py: render_3d_trajectories.  view holds the arguments that are    *)
(* not tables (overlay_heatmap, sample, whether league_df is None) and what *)
(* the call leaves: the notice, the traces added to the figure by kind, the *)
(* caption and whether the chart was drawn.                                 *)
(***************************************************************************)
\* add_shots_from_df: the number of arcs added to the figure.
add_shots_from_df(df, sample) ==
    IF Len(df.rows) = 0 THEN 0
    ELSE IF {"LOC_X", "LOC_Y"} \ df.cols # {} THEN 0
    ELSE IF sample # 0 /\ Len(df.rows) > sample THEN sample
    ELSE Len(df.rows)

\* league_df.empty: an axis of length 0.
IsEmptyFrame(df) == df.cols = {} \/ df.rows = <<>>

\* The traces add_zone_boundaries_from_labels(fig, X, Y, labels, halo=True)
\* adds for the labels of the grid.
HeatmapBoundaries == add_zone_boundaries_from_labels(X, Y, CellLabel, TRUE)

NoTraces == [surface |-> 0, hover |-> 0, boundary |-> 0, arcs |-> 0]

\* What render_3d_trajectories leaves, given the grid of its zone_diff_grid call
\* (IdleGrid if it made none) and the count add_shots_from_df would return: an
\* exception of zone_diff_grid leaves the function at once (no arcs, no
\* caption, no chart).
RenderOutcome(overlay_heatmap, missing, grid, added) ==
    LET raised == overlay_heatmap /\ ~missing /\ grid.state # "returned"
        drawn == overlay_heatmap /\ ~missing /\ ~raised
    IN  [grid |-> grid,
         view |-> [state |-> IF raised THEN "raised" ELSE "returned",
                   error |-> IF raised THEN grid.state ELSE "",
                   warning |-> overlay_heatmap /\ missing,
                   traces |-> [surface |-> IF drawn THEN 1 ELSE 0,
                               hover |-> IF drawn THEN 1 ELSE 0,
                               boundary |-> IF drawn THEN Len(HeatmapBoundaries) ELSE 0,
                               arcs |-> IF raised THEN 0 ELSE added],
                   caption |-> IF raised THEN -1 ELSE added,
                   chart |-> ~raised]]

\* Faulty variant: the heatmap is attempted whatever the league table is.
render_3d_trajectories_NoEmptyTest(df, league_is_none, ldf, sample, overlay_heatmap, empty_apply) ==
    LET missing == FALSE
    IN  CHOOSE r \in {RenderOutcome(overlay_heatmap, missing, grid, add_shots_from_df(df, sample)) :
                        grid \in {IF overlay_heatmap /\ ~missing
                                      THEN zone_diff_grid(df, ldf, empty_apply)
                                      ELSE IdleGrid}} : TRUE

\* render_3d_trajectories(df, league_df, sample, overlay_heatmap); zone_diff_grid
\* is called once, and only for a league table that is neither None nor empty.
render_3d_trajectories(df, league_is_none, ldf, sample, overlay_heatmap, empty_apply) ==
    LET missing == league_is_none \/ IsEmptyFrame(ldf)
    IN  CHOOSE r \in {RenderOutcome(overlay_heatmap, missing, grid, add_shots_from_df(df, sample)) :
                        grid \in {IF overlay_heatmap /\ ~missing
                                      THEN zone_diff_grid(df, ldf, empty_apply)
                                      ELSE IdleGrid}} : TRUE

RenderPlayerColSets ==
    {{"SHOT_ZONE_BASIC", "SHOT_ZONE_AREA", "SHOT_MADE_FLAG", "LOC_X", "LOC_Y"},
     {"SHOT_ZONE_BASIC", "SHOT_ZONE_AREA", "SHOT_MADE_FLAG"},
     {"LOC_X", "LOC_Y"}}

InitRender ==
    /\ NoPoint
    /\ \E cols \in RenderPlayerColSets, rows \in BagsUpTo(SchemaPlayerPool, MaxRenderRows) :
            player_df = [cols |-> cols, rows |-> rows]
    /\ \E cols \in SchemaLeagueColSets, rows \in BagsUpTo(SchemaLeaguePool, MaxSchemaRows) :
            league_df = [cols |-> cols, rows |-> rows]
    /\ pl_tab = Idle
    /\ zdg = IdleGrid
    /\ lg_tab = Idle
    /\ bnd = IdleBnd
    /\ shot = IdleShot
    /\ flt = IdleFlt
    /\ \E overlay \in BOOLEAN, none \in BOOLEAN, sample \in 0 .. MaxSample :
            \* league_df=None is passed with no table behind it.
            /\ none => league_df = NoTable
            /\ view = [state |-> "args", overlay_heatmap |-> overlay,
                       league_is_none |-> none, sample |-> sample, error |-> "",
                       warning |-> FALSE, traces |-> NoTraces, caption |-> -1,
                       chart |-> FALSE]
    /\ load = IdleLoad
    /\ app = IdleApp

Render3dTrajectories ==
    /\ view.state = "args"
    /\ \E empty_apply \in (IF ApplyOnEmptyTable(player_df, league_df)
                               THEN EmptyApplyOutcomes ELSE {"series"}) :
          \E r \in {render_3d_trajectories(player_df, view.league_is_none, league_df,
                                            view.sample, view.overlay_heatmap, empty_apply)} :
              /\ zdg' = r.grid
              /\ view' = [view EXCEPT !.state = r.view.state, !.error = r.view.error,
                                      !.warning = r.view.warning,
                                      !.traces = r.view.traces,
                                      !.caption = r.view.caption,
                                      !.chart = r.view.chart]
    /\ UNCHANGED <<x, y, pad_ft, basic, area, player_df, league_df, pl_tab>>
    /\ UNCHANGED <<lg_tab, bnd, shot, flt, load, app>>

NextRender == Render3dTrajectories

SpecRender == InitRender /\ [][NextRender]_vars

(***************************************************************************)
(* Claims about rendering, checked under SpecRender.                       *)
(***************************************************************************)
C19_Called == view.state \in {"returned", "raised"}

C19_LeagueMissing == view.league_is_none \/ IsEmptyFrame(league_df)

C19_HeatmapDrawn ==
    view.traces.surface > 0 \/ view.traces.hover > 0 \/ view.traces.boundary > 0

\* The league table is partial: it gives no percentage for a zone of the grid
\* that the player shot from.
C19_LeaguePartial ==
    /\ GridReturned
    /\ \E k \in DOMAIN zdg.pl : k \notin DOMAIN zdg.lg

\* C19 as stated: with a heatmap requested and the league data missing the
\* notice is shown and no surface, hover or boundary trace is added; and no
\* heatmap is drawn from a partial league table without the notice.
C19_NoHeatmapFromPartialLeague ==
    C19_Called =>
        /\ (view.overlay_heatmap /\ C19_LeagueMissing) =>
                view.warning /\ ~C19_HeatmapDrawn
        /\ (C19_HeatmapDrawn /\ C19_LeaguePartial) => view.warning

\* C19 as the code has it: the notice is shown exactly when a heatmap is
\* requested and league_df is None or empty, and then no surface, hover or
\* boundary trace is added and zone_diff_grid is not called; for every other
\* league table zone_diff_grid is called and, unless it raises, the surface,
\* the hover layer and the boundaries are all added without the notice, also
\* when the league table has no row for a zone the player shot from.
C19_NoticeIffLeagueMissing ==
    C19_Called =>
        /\ view.warning = (view.overlay_heatmap /\ C19_LeagueMissing)
        /\ view.warning => ~C19_HeatmapDrawn /\ zdg = IdleGrid /\ view.chart
        /\ (view.overlay_heatmap /\ ~C19_LeagueMissing) =>
                \/ /\ view.state = "raised"
                   /\ ~C19_HeatmapDrawn /\ ~view.chart
                \/ /\ view.state = "returned" /\ GridReturned
                   /\ view.traces.surface = 1 /\ view.traces.hover = 1
                   /\ view.traces.boundary = Len(HeatmapBoundaries)
                   /\ view.chart
        /\ ~view.overlay_heatmap => ~C19_HeatmapDrawn /\ view.chart

\* A heatmap drawn, without the notice, from a league table that has no row
\* for a zone the player shot from.
C19_Witness ==
    /\ view.state = "returned"
    /\ view.overlay_heatmap /\ ~C19_LeagueMissing
    /\ C19_HeatmapDrawn /\ C19_LeaguePartial
    /\ ~view.warning

(***************************************************************************)
(* data_io.py: load_shotlog and load_shotlog_multi, and the fetch block of  *)
(* app.py.  What a function returns is [kind, frames]: kind "pair" for a    *)
(* 2-tuple of tables, "frame" for a single table.  The stats endpoint is    *)
(* api: for each season, the player and the league table it answers with.   *)
(***************************************************************************)
available_seasons == <<"2019-20", "2020-21">>

\* get_name_to_id(): the active players.
get_name_to_id == [n \in {"LeBron James"} |-> 2544]

\* The names a call can be made with: one of an active player, one not in the map.
PlayerNames == {"LeBron James", "Bill Russell"}

\* get_team_maps(): id2abbr and abbr2full.
id2abbr == (1610612747 :> "LAL") @@ (1610612738 :> "BOS")
abbr2full == ("LAL" :> "Los Angeles Lakers") @@ ("BOS" :> "Boston Celtics")

AttachRow(r) ==
    LET team_abbr == id2abbr[r.TEAM_ID]
        venue == IF team_abbr = r.VTM THEN "Away"
                 ELSE IF team_abbr = r.HTM THEN "Home" ELSE "Unknown"
        opp_abbr == IF venue = "Away" THEN r.HTM
                    ELSE IF venue = "Home" THEN r.VTM ELSE "NA"
    IN  [TEAM_ID |-> r.TEAM_ID, HTM |-> r.HTM, VTM |-> r.VTM,
         TEAM_ABBR |-> team_abbr, VENUE |-> venue, OPPONENT_ABBR |-> opp_abbr,
         OPPONENT |-> IF opp_abbr \in DOMAIN abbr2full THEN abbr2full[opp_abbr] ELSE "NaN"]

_attach_venue_and_opponent(player_df_) ==
    IF IsEmptyFrame(player_df_) THEN player_df_
    ELSE [cols |-> player_df_.cols \cup {"TEAM_ABBR", "VENUE", "OPPONENT_ABBR", "OPPONENT"},
          rows |-> [i \in DOMAIN player_df_.rows |-> AttachRow(player_df_.rows[i])]]

load_shotlog(player_name, season, api) ==
    IF player_name \notin DOMAIN get_name_to_id
        THEN [kind |-> "frame", frames |-> <<NoTable>>, st_error |-> TRUE]
        ELSE [kind |-> "pair",
              frames |-> <<_attach_venue_and_opponent(api[season][1]), api[season][2]>>,
              st_error |-> FALSE]

\* a, b = value: a 2-tuple gives its items, a table its column labels; any
\* other number of items than two raises ValueError.
UnpackTwo(value) ==
    IF value.kind = "pair" THEN [error |-> "", items |-> value.frames]
    ELSE IF Cardinality(value.frames[1].cols) = 2
        THEN [error |-> "", items |-> <<NoTable, NoTable>>]
    ELSE [error |-> "ValueError", items |-> <<>>]

\* df.assign(SEASON=s)
AssignSeason(df, s) ==
    [cols |-> df.cols \cup {"SEASON"},
     rows |-> [i \in DOMAIN df.rows |-> ("SEASON" :> s) @@ df.rows[i]]]

\* pd.concat(frames, ignore_index=True), pd.DataFrame() for no frames.
RECURSIVE Concat(_)
Concat(frames) ==
    IF frames = <<>> THEN NoTable
    ELSE LET tl == Concat(Tail(frames))
         IN  [cols |-> Head(frames).cols \cup tl.cols,
              rows |-> Head(frames).rows \o tl.rows]

\* The loop of load_shotlog_multi over seasons[k..]: the frames collected, or
\* the error of the first unpacking that fails.
RECURSIVE MultiLoop(_, _, _, _, _, _)
MultiLoop(player_name, seasons, k, api, frames_p, frames_l) ==
    IF k > Len(seasons) THEN [error |-> "", frames_p |-> frames_p, frames_l |-> frames_l]
    ELSE LET s == seasons[k]
             u == UnpackTwo(load_shotlog(player_name, s, api))
         IN  IF u.error # "" THEN [error |-> u.error, frames_p |-> <<>>, frames_l |-> <<>>]
             ELSE MultiLoop(player_name, seasons, k + 1, api,
                     IF ~IsEmptyFrame(u.items[1])
                         THEN Append(frames_p, AssignSeason(u.items[1], s)) ELSE frames_p,
                     IF ~IsEmptyFrame(u.items[2])
                         THEN Append(frames_l, AssignSeason(u.items[2], s)) ELSE frames_l)

load_shotlog_multi(player_name, seasons, api) ==
    LET r == MultiLoop(player_name, seasons, 1, api, <<>>, <<>>)
    IN  IF r.error # "" THEN [kind |-> "raised", error |-> r.error, frames |-> <<>>]
        ELSE [kind |-> "pair", error |-> "",
              frames |-> <<Concat(r.frames_p), Concat(r.frames_l)>>]

\* The tables the endpoint can answer with.
ApiPlayerFrames ==
    {NoTable,
     [cols |-> {"TEAM_ID", "HTM", "VTM"},
      rows |-> <<[TEAM_ID |-> 1610612747, HTM |-> "LAL", VTM |-> "BOS"]>>],
     [cols |-> {"TEAM_ID", "HTM", "VTM"},
      rows |-> <<[TEAM_ID |-> 1610612747, HTM |-> "BOS", VTM |-> "LAL"]>>]}

ApiLeagueFrames ==
    {NoTable,
     [cols |-> {"SHOT_ZONE_BASIC", "SHOT_ZONE_AREA", "FGA", "FGM", "FG_PCT"},
      rows |-> <<SchemaLeaguePool[1]>>]}

\* available_seasons[min_i : max_i + 1] with min_i <= max_i.
SelectedSeasons ==
    {SubSeq(available_seasons, a, b) :
        a \in DOMAIN available_seasons, b \in DOMAIN available_seasons} \ {<<>>}

InitLoader ==
    /\ NoPoint
    /\ NoTables
    /\ lg_tab = Idle
    /\ bnd = IdleBnd
    /\ shot = IdleShot
    /\ flt = IdleFlt
    /\ view = IdleView
    /\ app = IdleApp
    /\ \E sel_player \in PlayerNames, selected_seasons \in SelectedSeasons,
          api \in [{available_seasons[i] : i \in DOMAIN available_seasons}
                        -> ApiPlayerFrames \X ApiLeagueFrames] :
            load = [state |-> "args", sel_player |-> sel_player,
                    selected_seasons |-> selected_seasons, api |-> api,
                    error |-> "", unpacked |-> 0,
                    player_df |-> NoTable, league_df |-> NoTable]

\* The fetch block of the app on a submitted, new key.
FetchShots ==
    /\ load.state = "args"
    /\ LET multi == Len(load.selected_seasons) > 1
           m == load_shotlog_multi(load.sel_player, load.selected_seasons, load.api)
           one == load_shotlog(load.sel_player, load.selected_seasons[1], load.api)
           u == IF multi
                    THEN (IF m.kind = "raised" THEN [error |-> m.error, items |-> <<>>]
                          ELSE UnpackTwo(m))
                    ELSE UnpackTwo(one)
       IN  load' = IF u.error # ""
                      THEN [load EXCEPT !.state = "raised", !.error = u.error]
                      ELSE [load EXCEPT !.state = "loaded", !.unpacked = 2,
                                        !.player_df = u.items[1],
                                        !.league_df = u.items[2]]
    /\ UNCHANGED <<core, lg_tab, bnd, shot, flt, view, app>>

NextLoader == FetchShots

SpecLoader == InitLoader /\ [][NextLoader]_vars

(***************************************************************************)
(* Claims about loading, checked under SpecLoader.                         *)
(***************************************************************************)
\* C20: the loader returns a pair of tables for every player name and season,
\* a name that is not in the name-to-id map included, so the two-value
\* unpacking of load_shotlog_multi and of the app never fails: every fetch
\* ends with both tables stored.
C20_LoaderAlwaysReturnsPair ==
    load.state \in {"loaded", "raised"} =>
        /\ load.state = "loaded"
        /\ load.error = ""
        /\ load.unpacked = 2

(***************************************************************************)
(* app.py: one run of the script, top to bottom, as Streamlit makes it on   *)
(* every interaction.  sess is st.session_state ("loaded_key" not in it     *)
(* while init is FALSE; None is has_data = FALSE and loaded_key = <<>>), w  *)
(* the values the widgets return in the run, api the stats endpoint.         *)
(***************************************************************************)
get_available_players == <<"LeBron James">>

NoSession ==
    [init |-> FALSE, loaded_key |-> <<>>, has_data |-> FALSE,
     player_df |-> NoTable, league_df |-> NoTable,
     season_min |-> "", season_max |-> ""]

\* if "loaded_key" not in st.session_state: ...
SessionInit(sess) ==
    IF sess.init THEN sess
    ELSE [NoSession EXCEPT !.init = TRUE,
                           !.season_min = available_seasons[Len(available_seasons)],
                           !.season_max = available_seasons[Len(available_seasons)]]

\* available_seasons.index(s)
SeasonIndex(season) == CHOOSE i \in DOMAIN available_seasons : available_seasons[i] = season

\* What a run that has not got anywhere leaves.
NoRun ==
    [error |-> "", fetched |-> FALSE, messages |-> {}, filter_called |-> FALSE,
     render_called |-> FALSE, rendered |-> 0, tabs |-> 0]

\* The two branches of the fetch block: the two tables, or the error raised.
Fetch(sel_player, selected_seasons, api) ==
    IF Len(selected_seasons) > 1
        THEN LET m == load_shotlog_multi(sel_player, selected_seasons, api)
             IN  IF m.kind = "raised" THEN [error |-> m.error, items |-> <<>>]
                 ELSE UnpackTwo(m)
        ELSE UnpackTwo(load_shotlog(sel_player, selected_seasons[1], api))

\* state = default_filter_state() with the live controls written into it.
AppFilterState(w) ==
    [default_filter_state EXCEPT !.keys = @ \cup {"shot_distance"},
                                 !.periods = w.periods, !.result = w.mm,
                                 !.venue = "All", !.opponent = "All",
                                 !.shot_distance = <<0, 100>>, !.action_type = "All"]

\* tabs = st.tabs(["Visualizer", "About", "Filters"])
AppTabs == <<"Visualizer", "About", "Filters">>

\* The script from the heatmap/result guard to its last line, data being loaded.
AppShow(sess, w, fetched) ==
    LET out0 == [NoRun EXCEPT !.fetched = fetched]
    IN  IF w.show_heatmap /\ w.mm # "All"
            THEN [session |-> sess, out |-> [out0 EXCEPT !.messages = {"result-not-all"}]]
        ELSE LET df_filtered == filter_df(sess.player_df, AppFilterState(w))
                 out1 == [out0 EXCEPT !.filter_called = TRUE]
             IN  IF IsEmptyFrame(df_filtered)
                     \* with tabs[1], tabs[2] run; with tabs[3] raises: index 3 of 3 tabs
                     THEN [session |-> sess,
                           out |-> [out1 EXCEPT !.messages = {"no-shots"},
                                                !.tabs = Len(AppTabs),
                                                !.error = IF 3 >= Len(AppTabs)
                                                              THEN "IndexError" ELSE ""]]
                 ELSE LET r == render_3d_trajectories(df_filtered, FALSE, sess.league_df,
                                                      w.sample, w.show_heatmap, "series")
                      IN  IF r.view.state = "raised"
                              THEN [session |-> sess,
                                    out |-> [out1 EXCEPT !.render_called = TRUE,
                                                         !.tabs = 1,
                                                         !.error = r.view.error]]
                              ELSE [session |-> sess,
                                    out |-> [out1 EXCEPT !.render_called = TRUE,
                                                         !.rendered = r.view.traces.arcs,
                                                         !.tabs = Len(AppTabs),
                                                         !.error = IF 3 >= Len(AppTabs)
                                                              THEN "IndexError" ELSE ""]]

\* The script from the form to the placeholder, the imports being done.
AppBody(sess0, w, api) ==
    LET sess1 == SessionInit(sess0)
        min_i == SeasonIndex(w.season_min)
        max_i == SeasonIndex(w.season_max)
        selected_seasons == SubSeq(available_seasons, min_i, max_i)
        sess2 == [sess1 EXCEPT !.season_min = w.season_min, !.season_max = w.season_max]
        requested_key == <<w.sel_player, w.season_min, w.season_max>>
        do_fetch == w.submitted /\ requested_key # sess2.loaded_key
        f == Fetch(w.sel_player, selected_seasons, api)
        sess3 == IF do_fetch
                     THEN [sess2 EXCEPT !.player_df = f.items[1], !.league_df = f.items[2],
                                        !.has_data = TRUE, !.loaded_key = requested_key]
                     ELSE sess2
    IN  IF min_i > max_i
            THEN [session |-> sess1, out |-> [NoRun EXCEPT !.messages = {"invalid-range"}]]
        ELSE IF do_fetch /\ f.error # ""
            THEN [session |-> sess2, out |-> [NoRun EXCEPT !.fetched = TRUE, !.error = f.error]]
        ELSE IF ~sess3.has_data
            THEN [session |-> sess3,
                  out |-> [NoRun EXCEPT !.messages = {"placeholder"}, !.tabs = Len(AppTabs)]]
        ELSE AppShow(sess3, w, do_fetch)

\* A run: the imports at the top of the script, then the rest.
app_run(sess, w, api) ==
    IF import_filters.error # ""
        THEN [session |-> sess, out |-> [NoRun EXCEPT !.error = import_filters.error]]
        ELSE AppBody(sess, w, api)

AppWidgets ==
    [sel_player : {get_available_players[i] : i \in DOMAIN get_available_players},
     season_min : {available_seasons[i] : i \in DOMAIN available_seasons},
     season_max : {available_seasons[i] : i \in DOMAIN available_seasons},
     submitted : BOOLEAN, show_heatmap : BOOLEAN,
     mm : {"All", "Makes", "Misses"},
     periods : {<<>>, <<1, 2, 3, 4, 5>>},
     sample : {100}]

InitApp ==
    /\ NoPoint
    /\ NoTables
    /\ lg_tab = Idle
    /\ bnd = IdleBnd
    /\ shot = IdleShot
    /\ flt = IdleFlt
    /\ view = IdleView
    /\ load = IdleLoad
    /\ \E api \in [{available_seasons[i] : i \in DOMAIN available_seasons}
                        -> ApiPlayerFrames \X ApiLeagueFrames] :
            app = [state |-> "started", session |-> NoSession, api |-> api,
                   runs |-> 0, before |-> NoSession,
                   w |-> CHOOSE w \in AppWidgets : TRUE, out |-> NoRun]

\* One run of the script; before is the session state the run started from.
AppRun ==
    /\ app.state \in {"started", "ran"}
    /\ app.runs < MaxRuns
    /\ \E w \in AppWidgets :
        \E r \in {app_run(app.session, w, app.api)} :
            app' = [app EXCEPT !.state = "ran", !.session = r.session,
                               !.before = app.session, !.runs = @ + 1,
                               !.w = w, !.out = r.out]
    /\ UNCHANGED <<core, lg_tab, bnd, shot, flt, view, load>>

NextApp == AppRun

SpecApp == InitApp /\ [][NextApp]_vars

(***************************************************************************)
(* Claims about the app, checked under SpecApp.                            *)
(***************************************************************************)
AppRan == app.state = "ran"

RequestedKey == <<app.w.sel_player, app.w.season_min, app.w.season_max>>

\* The run was asked for a dataset other than the loaded one, over a valid range.
NewKeySubmitted ==
    /\ app.w.submitted
    /\ RequestedKey # app.before.loaded_key
    /\ SeasonIndex(app.w.season_min) <= SeasonIndex(app.w.season_max)

C22_Fetched ==
    Fetch(app.w.sel_player,
          SubSeq(available_seasons, SeasonIndex(app.w.season_min),
                 SeasonIndex(app.w.season_max)), app.api)

\* The run is one on an empty player table: a valid request whose fetch gives
\* a player table without rows, with the heatmap/result guard not in the way.
C22_EmptyPlayerTable ==
    /\ NewKeySubmitted
    /\ C22_Fetched.error = ""
    /\ IsEmptyFrame(C22_Fetched.items[1])
    /\ ~(app.w.show_heatmap /\ app.w.mm # "All")

\* C22: a run on an empty player table ends without error with the no-shots
\* message and without a call of the renderer, no shot being rendered; and
\* add_shots_from_df returns 0 for a table without rows and otherwise the
\* number of arcs it adds, min(rows, sample) under a sample cap.
C22_EmptyTableShortCircuits ==
    /\ (AppRan /\ C22_EmptyPlayerTable) =>
            /\ app.out.error = ""
            /\ "no-shots" \in app.out.messages
            /\ ~app.out.render_called
            /\ app.out.rendered = 0
    /\ \A n \in 0 .. MaxRenderRows, sample \in 1 .. MaxSample :
            LET df == [cols |-> {"LOC_X", "LOC_Y", "SHOT_MADE_FLAG"},
                       rows |-> [i \in 1 .. n |-> SchemaPlayerPool[1]]]
            IN  add_shots_from_df(df, sample) = Min(n, sample)

(***************************************************************************)
(* Claims about the grid of zone_diff_grid, checked under SpecSchema.      *)
(***************************************************************************)
\* The lanes classify_area_lane can give.
C23_Lanes == {"Left Side(L)", "Left Side Center(LC)", "Center(C)",
              "Right Side Center(RC)", "Right Side(R)"}

C23_WellFormed(k) ==
    /\ k[1] \in BasicZones
    /\ k[1] \in {"Restricted Area", "In The Paint (Non-RA)"} => k[2] = "Center(C)"
    /\ k[1] = "Above the Break 3" => k[2] \in {"Left Side(L)", "Center(C)", "Right Side(R)"}
    /\ k[1] = "Left Corner 3" => k[2] = "Left Side(L)"
    /\ k[1] = "Right Corner 3" => k[2] = "Right Side(R)"
    /\ k[1] = "Mid-Range" => k[2] \in C23_Lanes

\* C23: the key of every cell of a returned grid, read off its label, is
\* well-formed: Center(C) for restricted-area and paint cells whatever their
\* y, one of L, C, R for Above the Break 3, Left Side(L) for Left Corner 3,
\* Right Side(R) for Right Corner 3, one of the five lanes for Mid-Range.
C23_CellKeysWellFormed ==
    GridReturned =>
        \A c \in Cells : C23_WellFormed(KeyOfLabel[zdg.labels[c[1]][c[2]]])

\* A returned grid with a paint cell whose y lies outside the Center(C) lane
\* and an Above the Break 3 cell whose lane is a side-centre one.
C23_Witness ==
    /\ GridReturned
    /\ \E c \in Cells :
            /\ KeyOfLabel[zdg.labels[c[1]][c[2]]] = <<"In The Paint (Non-RA)", "Center(C)">>
            /\ classify_area_lane(Y[c[1]][c[2]]) # "Center(C)"
    /\ \E c \in Cells :
            /\ KeyOfLabel[zdg.labels[c[1]][c[2]]][1] = "Above the Break 3"
            /\ classify_area_lane(Y[c[1]][c[2]]) = "Left Side Center(LC)"

\* The cell of centre (cx, cy) holds the court point (px, py): centre -/+ bin/2.
C24_InCell(cx, cy, px, py) ==
    /\ cx - bin_ft \div 2 <= px /\ px <= cx + bin_ft \div 2
    /\ cy - bin_ft \div 2 <= py /\ py <= cy + bin_ft \div 2

C24_Covered(px, py) ==
    \E i \in DOMAIN zdg.X : \E j \in DOMAIN zdg.X[i] :
        C24_InCell(zdg.X[i][j], zdg.Y[i][j], px, py)

\* The grid is regular: the centres are bin/2 + k*bin short of the court
\* length and -width/2 + bin/2 + k*bin short of width/2, X[i, j] depends on j
\* only and Y[i, j] on i only.
C24_Regular ==
    /\ DOMAIN zdg.X = DOMAIN zdg.Y
    /\ \A i \in DOMAIN zdg.X :
            /\ DOMAIN zdg.X[i] = DOMAIN zdg.Y[i]
            /\ \A j \in DOMAIN zdg.X[i] :
                    /\ zdg.X[i][j] = bin_ft \div 2 + j * bin_ft
                    /\ zdg.Y[i][j] = (0 - COURT_WIDTH \div 2) + bin_ft \div 2 + i * bin_ft
                    /\ zdg.X[i][j] < COURT_LENGTH_HALF
                    /\ zdg.Y[i][j] < COURT_WIDTH \div 2
                    /\ zdg.X[i][j] = zdg.X[0][j]
                    /\ zdg.Y[i][j] = zdg.Y[i][0]

C24_YRange == (0 - COURT_WIDTH \div 2) .. (COURT_WIDTH \div 2)

\* Some column of cells holds px; some row of cells holds py.  In a regular
\* grid the cell (i, j) holds (px, py) exactly when column j holds px and row
\* i holds py, so a point is covered exactly when both hold.
C24_ColumnHolds(px) ==
    \E j \in DOMAIN zdg.X[0] : Abs(zdg.X[0][j] - px) <= bin_ft \div 2

C24_RowHolds(py) ==
    \E i \in DOMAIN zdg.Y : Abs(zdg.Y[i][0] - py) <= bin_ft \div 2

\* C24 as stated: the returned grid is regular and its cells cover every court
\* point with 0 <= x <= 47 ft and -25 <= y <= 25 ft.
C24_CellsCoverHalfCourt ==
    GridReturned =>
        /\ C24_Regular
        /\ \A px \in 0 .. COURT_LENGTH_HALF : C24_ColumnHolds(px)
        /\ \A py \in C24_YRange : C24_RowHolds(py)

\* C24 as the code has it: the returned grid is regular, with 23 x-centres
\* 1, 3, ..., 45 ft and 25 y-centres -24, ..., 24 ft; its cells cover every
\* court point with 0 <= x <= 46 ft and -25 <= y <= 25 ft, and no cell holds
\* a point with 46 ft < x <= 47 ft.
C24_CellsCoverUpTo46 ==
    GridReturned =>
        /\ C24_Regular
        /\ Cardinality(DOMAIN zdg.X) = 25
        /\ Cardinality(DOMAIN zdg.X[0]) = 23
        /\ \A px \in 0 .. COURT_LENGTH_HALF : C24_ColumnHolds(px) = (px <= 4 * 46)
        /\ \A py \in C24_YRange : C24_RowHolds(py)

\* A returned grid, with a court point on the half-court line outside its
\* cells and the point a foot and a half short of it inside one.
C24_Witness ==
    /\ GridReturned
    /\ ~C24_Covered(COURT_LENGTH_HALF, 0)
    /\ C24_Covered(COURT_LENGTH_HALF - 6, 0)

(***************************************************************************)
(* zone_diff_grid on tables with backcourt and unknown-area rows, and the   *)
(* hover text of return_text=True.                                          *)
(***************************************************************************)
\* f"{p:.1%}": the percentage to one decimal, as a signed count of tenths of
\* a percent (a tie goes to the even digit), or nan.
FormatPct(p) ==
    IF IsNaN(p) THEN [nan |-> TRUE, tenths |-> 0]
    ELSE LET a == Abs(p[1]) * 1000
             q == a \div p[2]
             r == a % p[2]
             m == IF 2 * r > p[2] \/ (2 * r = p[2] /\ q % 2 = 1) THEN q + 1 ELSE q
         IN  [nan |-> FALSE, tenths |-> IF p[1] < 0 THEN 0 - m ELSE m]

\* hover_text[i, j]: the zone, the lane and the three formatted percentages of
\* the cell's key in the merged table zt.
hover_text(zt) ==
    [i \in DOMAIN y_centers |-> [j \in DOMAIN x_centers |->
        LET key == CellKey[i][j]
            found == key \in DOMAIN zt
        IN  [basic |-> key[1], area |-> key[2],
             player |-> FormatPct(IF found THEN zt[key].player_fg ELSE NaN),
             league |-> FormatPct(IF found THEN zt[key].league_fg ELSE NaN),
             delta |-> FormatPct(IF found THEN zt[key].diff ELSE Zero)]]]

BadAreaPlayerPool ==
    <<Shot("Above the Break 3", "Left Side(L)", 1),
      Shot("Above the Break 3", "Back Court(BC)", 1),
      Shot("Mid-Range", "None", 0),
      Shot("Mid-Range", "Left Side Center(LC)", 0)>>

BadAreaLeaguePool ==
    <<[SHOT_ZONE_BASIC |-> "Above the Break 3", SHOT_ZONE_AREA |-> "Left Side(L)",
       FGM |-> 1, FGA |-> 2, FG_PCT |-> <<1, 2>>, SHOT_MADE_FLAG |-> 1],
      [SHOT_ZONE_BASIC |-> "Above the Break 3", SHOT_ZONE_AREA |-> "Back Court(BC)",
       FGM |-> 1, FGA |-> 4, FG_PCT |-> <<1, 4>>, SHOT_MADE_FLAG |-> 0],
      [SHOT_ZONE_BASIC |-> "Mid-Range", SHOT_ZONE_AREA |-> "None",
       FGM |-> 1, FGA |-> 2, FG_PCT |-> <<1, 2>>, SHOT_MADE_FLAG |-> 1]>>

InitBadAreas ==
    /\ NoPoint
    /\ \E rows \in BagsUpTo(BadAreaPlayerPool, MaxBadRows) :
            player_df = [cols |-> {"SHOT_ZONE_BASIC", "SHOT_ZONE_AREA", "SHOT_MADE_FLAG"},
                         rows |-> rows]
    /\ \E cols \in LeagueColSets, rows \in BagsUpTo(BadAreaLeaguePool, MaxBadRows) :
            league_df = [cols |-> cols, rows |-> rows]
    /\ pl_tab = Idle
    /\ zdg = IdleGrid
    /\ NoCalls

NextBadAreas == ZoneDiffGrid

SpecBadAreas == InitBadAreas /\ [][NextBadAreas]_vars

(***************************************************************************)
(* Claims about backcourt and unknown-area rows, checked under SpecBadAreas. *)
(***************************************************************************)
\* The table without its backcourt and unknown-area rows.
C25_Without(df) ==
    [cols |-> df.cols,
     rows |-> SelectSeq(df.rows, LAMBDA r : r.SHOT_ZONE_AREA \notin {"Back Court(BC)", "None"})]

C25_HasBadRow(df) == \E i \in DOMAIN df.rows : df.rows[i].SHOT_ZONE_AREA \in {"Back Court(BC)", "None"}

\* C25: a returned grid has the Zdiff, the labels and the hover text that
\* zone_diff_grid returns for the same tables without their backcourt and
\* unknown-area rows, and no key of the merged table carries such an area.
C25_BadAreaRowsHaveNoEffect ==
    GridReturned =>
        LET g == zone_diff_grid(C25_Without(player_df), C25_Without(league_df), "series")
        IN  /\ g.state = "returned"
            /\ zdg.Zdiff = g.Zdiff
            /\ zdg.labels = g.labels
            /\ hover_text(zdg.zt) = hover_text(g.zt)
            /\ \A k \in DOMAIN zdg.zt : k[2] \notin {"Back Court(BC)", "None"}

\* A returned grid from a player table and a league table that both hold a
\* backcourt row next to a row of a court zone with a non-zero differential.
C25_Witness ==
    /\ GridReturned
    /\ C25_HasBadRow(player_df) /\ C25_HasBadRow(league_df)
    /\ \E k \in DOMAIN zdg.zt : zdg.zt[k].diff # Zero /\ ~IsNaN(zdg.zt[k].diff)

(***************************************************************************)
(* Claims about the heatmap/result guard of the app, checked under SpecApp. *)
(***************************************************************************)
\* The run has data to show, the heatmap is on and Result is not "All".
C26_GuardedRun ==
    /\ AppRan
    /\ app.w.show_heatmap /\ app.w.mm # "All"
    /\ NewKeySubmitted
    /\ C22_Fetched.error = ""

C27_PaddingOnlyGrowsPaint ==
    basic # "" =>
        \A q \in Pads :
            q >= pad_ft =>
                LET wider == classify_basic_zone(x, y, q)
                IN  /\ basic = "In The Paint (Non-RA)" => wider = "In The Paint (Non-RA)"
                    /\ wider # basic => wider = "In The Paint (Non-RA)"

\* A classified point outside the paint that a larger pad puts in the paint.
C27_Witness ==
    /\ basic \in {"Mid-Range", "Above the Break 3", "Left Corner 3", "Right Corner 3"}
    /\ \E q \in Pads : q > pad_ft /\ classify_basic_zone(x, y, q) = "In The Paint (Non-RA)"

(***************************************************************************)
(* Claims about an empty periods selection, checked under SpecFilter.       *)
(***************************************************************************)
\* The state of the call has the periods key with an empty selection.
C28_EmptyPeriods == "periods" \in flt.filters.keys /\ flt.filters.periods = <<>>

\* C28: a call of filter_df whose state has an empty periods selection returns
\* what filter_df gives for the same state without the periods key: no row is
\* dropped for its PERIOD.
C28_EmptyPeriodsIsNoFilter ==
    (flt.state = "returned" /\ C28_EmptyPeriods) =>
        /\ flt.error = ""
        /\ flt.out = filter_df(flt.df, [flt.filters EXCEPT !.keys = @ \ {"periods"}])

====
